---- MODULE Spec2Model ----
(***************************************************************************)
(* A model of the resource cache and event reconciliation engine of the    *)
(* hues crate (src/src/service/bridge.rs): the lock-guarded BridgeCache,   *)
(* full-snapshot ingestion (insert_to_cache), event reconciliation         *)
(* (upsert_to_cache, merge_resource_data, delete_from_cache), the poll and *)
(* listen background tasks with their handles, and command dispatch        *)
(* (merge_commands, Light::send).                                          *)
(***************************************************************************)
EXTENDS Integers, Sequences, FiniteSets, TLC

VARIABLES
    cache,          \* BridgeCache behind Arc<Mutex<..>>
    poisoned,       \* the Mutex is poisoned (a holder panicked)
    lock,           \* holder of the Mutex: 0 (free) or a task index
    main,           \* position of the foreground caller
    tasks,          \* spawned background tasks, in spawn order
    poll_handle,    \* Bridge.poll_handle: 0 (None) or a task index
    listen_handle,  \* Bridge.listen_handle: 0 (None) or a task index
    stopped,        \* task indexes a stop call (unpoll/unlisten) was applied to
    puts,           \* PUT requests issued to the bridge, in order
    now,            \* the clock of the runtime, in heartbeats of the poll interval
    last            \* what the last step did (its input and the cache before it)

vars == <<cache, poisoned, lock, main, tasks, poll_handle, listen_handle, stopped, puts, now, last>>

(***************************************************************************)
(* serde_json::Value                                                       *)
(***************************************************************************)
Null == [t |-> "null"]
JBool(b) == [t |-> "bool", v |-> b]
JNum(n) == [t |-> "num", v |-> n]
JStr(s) == [t |-> "str", v |-> s]
JArr(s) == [t |-> "arr", v |-> s]
JObj(f) == [t |-> "obj", v |-> f]
NoKeys == [k \in {} |-> Null]
EmptyObj == JObj(NoKeys)

IsNull(v) == v.t = "null"
IsObj(v) == v.t = "obj"
HasKey(v, k) == IsObj(v) /\ k \in DOMAIN v.v

\* Value::get(key): Some(value) for a key of an object, None otherwise
JGet(v, k) == IF HasKey(v, k) THEN [some |-> TRUE, val |-> v.v[k]] ELSE [some |-> FALSE]

(***************************************************************************)
(* json_patch::merge (RFC 7396), as called by merge_resource_data and      *)
(* merge_commands: a non-object patch replaces the document; an object     *)
(* patch is merged key by key, a null member removing the key.             *)
(***************************************************************************)
RECURSIVE Merge(_, _)
\* faulty variant: nested objects are replaced, not merged
MergeShallow(doc, patch) ==
    IF ~IsObj(patch) THEN patch
    ELSE LET d == IF IsObj(doc) THEN doc.v ELSE NoKeys
             gone == {k \in DOMAIN patch.v : IsNull(patch.v[k])}
             keys == (DOMAIN d \cup DOMAIN patch.v) \ gone
         IN  JObj([k \in keys |-> IF k \in DOMAIN patch.v THEN patch.v[k] ELSE d[k]])

\* faulty variant: a null of the patch is stored as the member's value
MergeKeepNull(doc, patch) ==
    IF ~IsObj(patch) THEN patch
    ELSE LET d == IF IsObj(doc) THEN doc.v ELSE NoKeys
             keys == DOMAIN d \cup DOMAIN patch.v
         IN  JObj([k \in keys |->
                    IF k \in DOMAIN patch.v
                    THEN IF IsNull(patch.v[k]) THEN Null
                         ELSE Merge(IF k \in DOMAIN d THEN d[k] ELSE Null, patch.v[k])
                    ELSE d[k]])

Merge(doc, patch) ==
    IF ~IsObj(patch) THEN patch
    ELSE LET d == IF IsObj(doc) THEN doc.v ELSE NoKeys
             gone == {k \in DOMAIN patch.v : IsNull(patch.v[k])}
             keys == (DOMAIN d \cup DOMAIN patch.v) \ gone
         IN  JObj([k \in keys |->
                    IF k \in DOMAIN patch.v
                    THEN Merge(IF k \in DOMAIN d THEN d[k] ELSE Null, patch.v[k])
                    ELSE d[k]])

(***************************************************************************)
(* Typed data and serde's derived Serialize / Deserialize.                 *)
(* A type is a descriptor; a typed value is a string, a boolean, a number, *)
(* an Option ([some |-> ..]), a sequence (Vec) or a record (struct).       *)
(***************************************************************************)
TStr == [t |-> "str"]
TBool == [t |-> "bool"]
TNum == [t |-> "num"]
TOpt(T) == [t |-> "opt", of |-> T]
TVec(T) == [t |-> "vec", of |-> T]
TStruct(order, ty) == [t |-> "struct", order |-> order, ty |-> ty]

None == [some |-> FALSE]
Some(x) == [some |-> TRUE, val |-> x]
Err == [ok |-> FALSE]
Ok(x) == [ok |-> TRUE, val |-> x]

\* serde_json::to_value of a value of type T
RECURSIVE ToValue(_, _)
ToValue(T, d) ==
    CASE T.t = "str" -> JStr(d)
      [] T.t = "bool" -> JBool(d)
      [] T.t = "num" -> JNum(d)
      [] T.t = "opt" -> IF d.some THEN ToValue(T.of, d.val) ELSE Null
      [] T.t = "vec" -> JArr([i \in 1..Len(d) |-> ToValue(T.of, d[i])])
      [] T.t = "struct" -> JObj([k \in DOMAIN T.ty |-> ToValue(T.ty[k], d[k])])

\* serde_json::from_value into type T: Ok(value) or Err.  Unknown members are
\* ignored, a missing Option member is None, a struct is also read from an
\* array of its fields in declaration order.
RECURSIVE FromValue(_, _)
FromValue(T, v) ==
    CASE T.t = "str" -> IF v.t = "str" THEN Ok(v.v) ELSE Err
      [] T.t = "bool" -> IF v.t = "bool" THEN Ok(v.v) ELSE Err
      [] T.t = "num" -> IF v.t = "num" THEN Ok(v.v) ELSE Err
      [] T.t = "opt" ->
            IF IsNull(v) THEN Ok(None)
            ELSE LET r == FromValue(T.of, v)
                 IN  IF r.ok THEN Ok(Some(r.val)) ELSE Err
      [] T.t = "vec" ->
            IF v.t # "arr" THEN Err
            ELSE LET rs == [i \in 1..Len(v.v) |-> FromValue(T.of, v.v[i])]
                 IN  IF \A i \in 1..Len(v.v) : rs[i].ok
                     THEN Ok([i \in 1..Len(v.v) |-> rs[i].val]) ELSE Err
      [] T.t = "struct" ->
            IF v.t = "obj"
            THEN LET rs == [k \in DOMAIN T.ty |->
                              IF k \in DOMAIN v.v THEN FromValue(T.ty[k], v.v[k])
                              ELSE IF T.ty[k].t = "opt" THEN Ok(None) ELSE Err]
                 IN  IF \A k \in DOMAIN T.ty : rs[k].ok
                     THEN Ok([k \in DOMAIN T.ty |-> rs[k].val]) ELSE Err
            ELSE IF v.t = "arr" /\ Len(v.v) = Len(T.order)
            THEN LET rs == [i \in 1..Len(T.order) |-> FromValue(T.ty[T.order[i]], v.v[i])]
                     at(k) == CHOOSE i \in 1..Len(T.order) : T.order[i] = k
                 IN  IF \A i \in 1..Len(T.order) : rs[i].ok
                     THEN Ok([k \in DOMAIN T.ty |-> rs[at(k)].val]) ELSE Err
            ELSE Err

(***************************************************************************)
(* Resource data.  The field-level schema of each kind is cut down to its  *)
(* id and one or two representative members, keeping a required nested     *)
(* struct, an Option member and a Vec member.                              *)
(***************************************************************************)
OnState == TStruct(<<"on">>, [on |-> TBool])
DimmingState == TStruct(<<"brightness", "min_dim_level">>,
                        [brightness |-> TNum, min_dim_level |-> TOpt(TNum)])
LightData == TStruct(<<"id", "on", "dimming">>,
                     [id |-> TStr, on |-> OnState, dimming |-> DimmingState])
SceneData == TStruct(<<"id", "actions", "auto_dynamic">>,
                     [id |-> TStr, actions |-> TVec(TStr), auto_dynamic |-> TBool])
ZoneMetadata == TStruct(<<"name">>, [name |-> TStr])
ZoneData == TStruct(<<"id", "metadata">>, [id |-> TStr, metadata |-> ZoneMetadata])
BridgeData == TStruct(<<"id", "bridge_id">>, [id |-> TStr, bridge_id |-> TStr])
BehaviorInstanceData == TStruct(<<"id", "enabled">>, [id |-> TStr, enabled |-> TBool])
BehaviorScriptData == TStruct(<<"id", "version">>, [id |-> TStr, version |-> TStr])

\* Resource / HueEventData / ResourceType tags the model keeps
DataOf == [light |-> LightData, scene |-> SceneData, zone |-> ZoneData,
           bridge |-> BridgeData, behavior_instance |-> BehaviorInstanceData,
           behavior_script |-> BehaviorScriptData]

\* Resource variants that carry data (the others are unit variants)
ResourceKinds == DOMAIN DataOf
\* HueEventData variants that carry a serde_json::Value
PayloadKinds == {"light", "scene", "zone", "bridge", "behavior_script"}
\* the map of BridgeCache each kind is stored in
Field == [light |-> "lights", scene |-> "scenes", zone |-> "zones",
          behavior_instance |-> "behavior_instances",
          behavior_script |-> "behavior_scripts"]
StoredKinds == DOMAIN Field

ResourceIdentifier(rid, rtype) == [rid |-> rid, rtype |-> rtype]

(***************************************************************************)
(* BridgeCache                                                             *)
(***************************************************************************)
NoEntries == [k \in {} |-> None]
BridgeCacheDefault ==
    [data |-> None, lights |-> NoEntries, scenes |-> NoEntries, zones |-> NoEntries,
     behavior_instances |-> NoEntries, behavior_scripts |-> NoEntries]

\* Vec<Resource> read from the JSON objects a GET /resource answer holds
\* (the derived Deserialize, tag = "type"): an object of a kind that carries
\* data becomes that variant, an object of a unit variant or of an unknown
\* tag (serde(other)) becomes a variant without data; one object that does
\* not deserialize fails the whole list
RECURSIVE Resources(_)
Resources(objects) ==
    IF objects = <<>> THEN Ok(<<>>)
    ELSE LET o == Head(objects)
             r == IF o.kind \in ResourceKinds THEN FromValue(DataOf[o.kind], o.payload)
                  ELSE Ok(Null)
             rest == Resources(Tail(objects))
         IN  IF r.ok /\ rest.ok THEN Ok(<<[kind |-> o.kind, d |-> r.val]>> \o rest.val)
             ELSE Err

\* HashMap::insert
Put(m, k, v) == [x \in DOMAIN m \cup {k} |-> IF x = k THEN v ELSE m[x]]
\* HashMap::retain(|id, _| !ids.contains(id))
Retain(m, ids) == [x \in DOMAIN m \ ids |-> m[x]]

\* faulty variant: an id already cached is evicted
InsertEvict(c, res) ==
    IF res.kind = "bridge" THEN [c EXCEPT !.data = IF @.some THEN None ELSE Some(res.d)]
    ELSE IF res.kind \in StoredKinds
    THEN [c EXCEPT ![Field[res.kind]] =
             IF res.d.id \in DOMAIN @ THEN Retain(@, {res.d.id}) ELSE Put(@, res.d.id, res.d)]
    ELSE c

\* faulty variant: the map is cleared before the insert
InsertClearing(c, res) ==
    IF res.kind = "bridge" THEN [c EXCEPT !.data = Some(res.d)]
    ELSE IF res.kind \in StoredKinds
    THEN [c EXCEPT ![Field[res.kind]] = Put(NoEntries, res.d.id, res.d)]
    ELSE c

\* faulty variant: a resource of a kind without a map resets the cache
InsertResetting(c, res) ==
    IF res.kind = "bridge" THEN [c EXCEPT !.data = Some(res.d)]
    ELSE IF res.kind \in StoredKinds
    THEN [c EXCEPT ![Field[res.kind]] = Put(@, res.d.id, res.d)]
    ELSE BridgeCacheDefault

\* faulty variant: the entry is stored under the name of its kind
InsertUnderKind(c, res) ==
    IF res.kind = "bridge" THEN [c EXCEPT !.data = Some(res.d)]
    ELSE IF res.kind \in StoredKinds
    THEN [c EXCEPT ![Field[res.kind]] = Put(@, res.kind, res.d)]
    ELSE c

\* one pass of the loop of insert_to_cache
InsertResource(c, res) ==
    IF res.kind = "bridge" THEN [c EXCEPT !.data = Some(res.d)]
    ELSE IF res.kind \in StoredKinds
    THEN [c EXCEPT ![Field[res.kind]] = Put(@, res.d.id, res.d)]
    ELSE c

RECURSIVE insert_to_cache(_, _)
insert_to_cache(c, data) ==
    IF data = <<>> THEN c
    ELSE insert_to_cache(InsertResource(c, Head(data)), Tail(data))

\* merge_resource_data: Ok(data) or Err where the final unwrap panics
merge_resource_data(T, data, patch) == FromValue(T, Merge(ToValue(T, data), patch))

\* d.get("id").expect("no id").as_str().unwrap(): Err where it panics
PayloadId(p) ==
    LET g == JGet(p, "id")
    IN  IF g.some /\ g.val.t = "str" THEN Ok(g.val.v) ELSE Err

(***************************************************************************)
(* delete_from_cache.  The identifiers are grouped by kind and the kinds   *)
(* are visited in the iteration order of a HashMap, which is arbitrary;    *)
(* kinds with a todo!() arm panic.  The result is the set of outcomes over *)
(* all orders: without a panicking kind every kind is processed; with one, *)
(* any subset of the other kinds was processed before the panic.           *)
(***************************************************************************)
TodoKinds == {"bridge", "geofence"}

RECURSIVE RetainKinds(_, _, _)
RetainKinds(c, data, kinds) ==
    IF kinds = {} THEN c
    ELSE LET k == CHOOSE x \in kinds : TRUE
             ids == {data[i].rid : i \in {j \in 1..Len(data) : data[j].rtype = k}}
         IN  RetainKinds([c EXCEPT ![Field[k]] = Retain(@, ids)], data, kinds \ {k})

\* faulty variant: the ids are removed from every map, whatever their kind
RECURSIVE RetainAnyKind(_, _, _)
RetainAnyKind(c, data, kinds) ==
    IF kinds = {} THEN c
    ELSE LET k == CHOOSE x \in kinds : TRUE
             ids == {data[i].rid : i \in 1..Len(data)}
         IN  RetainAnyKind([c EXCEPT ![Field[k]] = Retain(@, ids)], data, kinds \ {k})

delete_any_kind(c, data) ==
    LET kinds == {data[i].rtype : i \in 1..Len(data)}
    IN  IF kinds \cap TodoKinds = {}
        THEN {[cache |-> RetainAnyKind(c, data, DOMAIN Field), panicked |-> FALSE]}
        ELSE {[cache |-> RetainKinds(c, data, P), panicked |-> TRUE] :
                 P \in SUBSET (kinds \ TodoKinds)}

delete_from_cache(c, data) ==
    LET kinds == {data[i].rtype : i \in 1..Len(data)}
    IN  IF kinds \cap TodoKinds = {}
        THEN {[cache |-> RetainKinds(c, data, kinds), panicked |-> FALSE]}
        ELSE {[cache |-> RetainKinds(c, data, P), panicked |-> TRUE] :
                 P \in SUBSET (kinds \ TodoKinds)}

(***************************************************************************)
(* upsert_to_cache, item by item.  The state of its loops is the cache,    *)
(* the change set and whether the task has panicked.                       *)
(***************************************************************************)
\* HueEventData variants with an arm in the Update match
UpdateKinds == {"light", "scene"}

Panic(st) == [st EXCEPT !.panicked = TRUE]

\* faulty variant: a patch for an id that is not cached creates the entry
UpdateOrCreate(st, ed) ==
    IF ed.kind \notin UpdateKinds THEN st
    ELSE LET id == PayloadId(ed.payload)
         IN  IF ~id.ok THEN Panic(st)
             ELSE LET m == st.cache[Field[ed.kind]]
                      r == IF id.val \in DOMAIN m
                           THEN merge_resource_data(DataOf[ed.kind], m[id.val], ed.payload)
                           ELSE FromValue(DataOf[ed.kind], Merge(EmptyObj, ed.payload))
                  IN  IF ~r.ok THEN Panic(st)
                      ELSE [st EXCEPT
                              !.changes = @ \cup {ResourceIdentifier(r.val.id, ed.kind)},
                              !.cache = [@ EXCEPT ![Field[ed.kind]] = Put(m, id.val, r.val)]]

UpdateDatum(st, ed) ==
    IF ed.kind \notin UpdateKinds THEN st
    ELSE LET id == PayloadId(ed.payload)
         IN  IF ~id.ok THEN Panic(st)
             ELSE LET m == st.cache[Field[ed.kind]]
                  IN  IF id.val \notin DOMAIN m THEN st
                      ELSE LET r == merge_resource_data(DataOf[ed.kind], m[id.val], ed.payload)
                           IN  IF ~r.ok THEN Panic(st)
                               ELSE [st EXCEPT
                                       !.changes = @ \cup {ResourceIdentifier(r.val.id, ed.kind)},
                                       !.cache = [@ EXCEPT ![Field[ed.kind]] = Put(m, id.val, r.val)]]

\* the unit variants are filtered out (filter_map ... => None)
Carries(ed) == ed.kind \in PayloadKinds

\* one item of an Add event: None (filtered), Ok(resource) or Err where
\* serde_json::from_value(d).unwrap() panics
AddDatum(ed) ==
    IF ~Carries(ed) THEN None
    ELSE LET r == FromValue(DataOf[ed.kind], ed.payload)
         IN  IF r.ok THEN Some(Ok([kind |-> ed.kind, d |-> r.val])) ELSE Some(Err)

\* one item of a Delete event: None (filtered), Ok(identifier) or Err where
\* expect("no id") / unwrap() panics
DeleteDatum(ed) ==
    IF ~Carries(ed) THEN None
    ELSE LET id == PayloadId(ed.payload)
         IN  IF id.ok THEN Some(Ok(ResourceIdentifier(id.val, ed.kind))) ELSE Some(Err)

(***************************************************************************)
(* Bounds of the exploration and the inputs the environment supplies.      *)
(***************************************************************************)
MaxTasks == 1      \* background tasks spawned in one run
MaxBatch == 2      \* HueEvents in one stream message (reconciliation runs)
MaxData == 2       \* data items in one HueEvent (reconciliation runs)
LifeBatch == 1     \* HueEvents in one stream message (lifecycle runs)
LifeData == 1      \* data items in one HueEvent (lifecycle runs)
MaxSnap == 1       \* resources in one snapshot of the lifecycle runs

Res(kind, d) == [kind |-> kind, d |-> d]
Light(id, on, bri, mdl) ==
    [id |-> id, on |-> [on |-> on], dimming |-> [brightness |-> bri, min_dim_level |-> mdl]]
Scene(id, actions) == [id |-> id, actions |-> actions, auto_dynamic |-> FALSE]
Zone(id) == [id |-> id, metadata |-> [name |-> "z"]]
TheBridge == [id |-> "A", bridge_id |-> "b"]

\* sequences over S of length lo..hi
SeqsOf(S, lo, hi) == UNION {[1..n -> S] : n \in lo..hi}
\* a GET /resource answer holds each resource once
Distinct(data) ==
    \A i, j \in 1..Len(data) :
        i # j => <<data[i].kind, data[i].d.id>> # <<data[j].kind, data[j].d.id>>

\* what the bridge may answer to GET /resource in the reconciliation runs
ReconSnapshots ==
    {<<Res("light", Light("A", FALSE, 80, Some(1))), Res("scene", Scene("A", <<"x", "y">>)),
       Res("zone", Zone("A")), Res("bridge", TheBridge)>>}

\* what it may answer in the lifecycle runs
LifeResources ==
    {Res("light", Light("A", FALSE, 80, Some(1))),
     Res("light", Light("B", TRUE, 50, None)), Res("bridge", TheBridge)}
LifeSnapshots == {data \in SeqsOf(LifeResources, 0, MaxSnap) : Distinct(data)}

Datum(kind, payload) == [kind |-> kind, payload |-> payload]
Id(id) == "id" :> JStr(id)

\* partial resources carried by Update events
Patches ==
    {Datum("light", JObj(Id("A") @@ "on" :> JObj("on" :> JBool(TRUE)))),
     Datum("light", JObj(Id("A") @@ "dimming" :> JObj("brightness" :> JNum(50)))),
     Datum("light", JObj(Id("A") @@ "dimming" :> JObj("min_dim_level" :> Null)
                         @@ "future" :> JStr("f"))),
     Datum("light", JObj(Id("A") @@ "dimming" :> Null)),
     Datum("light", JObj(Id("B") @@ "on" :> JObj("on" :> JBool(TRUE)))),
     Datum("light", JObj("on" :> JObj("on" :> JBool(TRUE)))),
     Datum("scene", JObj(Id("A") @@ "actions" :> JArr(<<JStr("z")>>))),
     Datum("zone", JObj(Id("A") @@ "metadata" :> JObj("name" :> JStr("w"))))}

\* full resources carried by Add events
Additions ==
    {Datum("light", ToValue(LightData, Light("B", TRUE, 50, None))),
     Datum("light", JObj(Id("B") @@ "on" :> JObj("on" :> JBool(TRUE)))),
     Datum("behavior_instance", ToValue(BehaviorInstanceData, [id |-> "A", enabled |-> TRUE])),
     Datum("unknown", Null)}

\* identifiers carried by Delete events
Deletions ==
    {Datum("light", JObj(Id("A"))), Datum("scene", JObj(Id("A"))),
     Datum("bridge", JObj(Id("A"))),
     Datum("scene", JObj("owner" :> JStr("o")))}

(***************************************************************************)
(* Background tasks (tokio::spawn) and their cancellation.                 *)
(* A task is suspended at an await or running between two awaits.          *)
(*   poll task:   tick_wait -> fetching -> locking -> tick_wait            *)
(*   listen task: connecting -> streaming -> locking -> applying           *)
(*                (<-> event) -> streaming                                 *)
(***************************************************************************)
Suspended == {"tick_wait", "fetching", "connecting", "streaming"}
Running == {"locking", "applying", "event"}
Terminal == {"aborted", "ended", "panicked"}

\* n: events of the batch begun; etype, m, raw, data: the event in hand, the
\* items of it consumed (their number, and the items of an Add or Delete)
\* and the resources or identifiers collected from them (poll task: data is
\* the snapshot fetched).
\* inbox: the messages the event stream has ready for the task, in arrival
\* order, in the runs that fix them beforehand.
\* born: when the task was spawned; due: when the next tick of its interval
\* is due; asked: when the task last started a fetch by the clock (-1:
\* never).  The poll task starts at its first interval.tick().await: its first pass through the loop takes the
\* first_tick branch, which fetches nothing, and the first tick of a
\* tokio::time::interval is due when the interval is created.
NewTask(type, st) ==
    [type |-> type, st |-> st, cancel |-> FALSE, n |-> 0, changes |-> {},
     etype |-> "", m |-> 0, raw |-> <<>>, data |-> <<>>, born |-> now, due |-> now,
     inbox |-> <<>>, asked |-> -1]

\* faulty variant: the abort is lost
AbortIgnored(tk) == tk

\* faulty variant: the abort drops the task wherever it is
AbortAtOnce(tk) ==
    IF tk.st \in Suspended \cup Running THEN [tk EXCEPT !.st = "aborted"] ELSE tk

\* JoinHandle::abort(): a suspended task is dropped at its await; a running
\* task is not interrupted, it is dropped when it next suspends
Abort(tk) ==
    IF tk.st \in Suspended THEN [tk EXCEPT !.st = "aborted"]
    ELSE IF tk.st \in Running THEN [tk EXCEPT !.cancel = TRUE]
    ELSE tk

\* the task suspends at an await
AtAwait(tk, st) == [tk EXCEPT !.st = IF tk.cancel THEN "aborted" ELSE st]

\* the poll task reaches interval.tick().await.  A task aborted meanwhile is
\* dropped there if the await suspends; if the tick is already due the
\* await completes at once and the task, still to be dropped, goes on to
\* its next request.  A task that fetches by the clock (asked >= 0) has its
\* tick due or not by the clock; in the runs that leave the clock out
\* both may be the case.
AtTick(tk) ==
    IF ~tk.cancel THEN {[tk EXCEPT !.st = "tick_wait"]}
    ELSE IF tk.asked >= 0
    THEN {[tk EXCEPT !.st = IF tk.due <= now THEN "tick_wait" ELSE "aborted"]}
    ELSE {[tk EXCEPT !.st = "tick_wait"], [tk EXCEPT !.st = "aborted"]}

NoLast == [op |-> "none"]
Applied(via, by, snap) ==
    [op |-> "snapshot", via |-> via, by |-> by, pre |-> cache, snap |-> snap,
     again |-> last.op = "snapshot" /\ last.snap = snap,
     stopped |-> by \in stopped, cancel |-> by # 0 /\ tasks[by].cancel]

Idle == [pc |-> "idle"]

Init ==
    /\ cache = BridgeCacheDefault
    /\ poisoned = FALSE
    /\ lock = 0
    /\ main = Idle
    /\ tasks = <<>>
    /\ poll_handle = 0
    /\ listen_handle = 0
    /\ stopped = {}
    /\ puts = <<>>
    /\ now = 0
    /\ last = NoLast

(***************************************************************************)
(* Foreground calls on Bridge                                              *)
(***************************************************************************)
\* an async call starts: its GET /resource is in flight
Call(pc) ==
    /\ main.pc = "idle"
    /\ main' = [pc |-> pc]
    /\ last' = NoLast
    /\ UNCHANGED <<cache, poisoned, lock, tasks, poll_handle, listen_handle, stopped, puts, now>>

\* poll / listen may be called whatever the handles hold
StartCall(pc, most) == Len(tasks) < most /\ Call(pc)
PollCall == StartCall("poll_fetch", MaxTasks)
ListenCall == StartCall("listen_fetch", MaxTasks)
RefreshCall == Call("refresh_fetch")

\* faulty variant: the eager fetch is not applied
StartedLazily(via, r, task) ==
    /\ lock = 0
    /\ tasks' = Append(tasks, task)
    /\ IF via = "poll"
       THEN poll_handle' = Len(tasks) + 1 /\ UNCHANGED listen_handle
       ELSE listen_handle' = Len(tasks) + 1 /\ UNCHANGED poll_handle
    /\ main' = Idle
    /\ last' = IF r.ok THEN [op |-> "snapshot", via |-> via, by |-> 0, pre |-> cache,
                             snap |-> r.val, again |-> FALSE, stopped |-> FALSE,
                             cancel |-> FALSE]
               ELSE [op |-> "started", via |-> via]
    /\ UNCHANGED <<cache, poisoned, lock, stopped, puts, now>>

\* faulty variant: the task of the handle being overwritten is aborted
StartedReplacing(via, r, task) ==
    /\ lock = 0
    /\ ~(r.ok /\ poisoned)
    /\ cache' = IF r.ok THEN insert_to_cache(cache, r.val) ELSE cache
    /\ LET h == IF via = "poll" THEN poll_handle ELSE listen_handle
       IN  tasks' = Append(IF h = 0 THEN tasks ELSE [tasks EXCEPT ![h] = Abort(@)], task)
    /\ IF via = "poll"
       THEN poll_handle' = Len(tasks) + 1 /\ UNCHANGED listen_handle
       ELSE listen_handle' = Len(tasks) + 1 /\ UNCHANGED poll_handle
    /\ main' = Idle
    /\ last' = IF r.ok THEN Applied(via, 0, r.val) ELSE [op |-> "started", via |-> via]
    /\ UNCHANGED <<poisoned, lock, stopped, puts, now>>

\* the eager fetch of poll / listen answers: apply it, spawn the task, store
\* its JoinHandle over the handle held before (a JoinHandle that is dropped
\* detaches its task), return
Started(via, r, task) ==
    /\ lock = 0
    /\ IF r.ok /\ poisoned
       THEN /\ main' = [pc |-> "panicked"]
            /\ last' = NoLast
            /\ UNCHANGED <<cache, tasks, poll_handle, listen_handle>>
       ELSE /\ cache' = IF r.ok THEN insert_to_cache(cache, r.val) ELSE cache
            /\ tasks' = Append(tasks, task)
            /\ IF via = "poll"
               THEN poll_handle' = Len(tasks) + 1 /\ UNCHANGED listen_handle
               ELSE listen_handle' = Len(tasks) + 1 /\ UNCHANGED poll_handle
            /\ main' = Idle
            /\ last' = IF r.ok THEN Applied(via, 0, r.val)
                       ELSE [op |-> "started", via |-> via, pre |-> cache]
    /\ UNCHANGED <<poisoned, lock, stopped, puts, now>>

PollStarted(S) ==
    /\ main.pc = "poll_fetch"
    /\ \E r \in {Ok(data) : data \in S} \cup {Err} : Started("poll", r, NewTask("poll", "tick_wait"))

ListenStarted(S) ==
    /\ main.pc = "listen_fetch"
    /\ \E r \in {Ok(data) : data \in S} \cup {Err} :
          Started("listen", r, NewTask("listen", "connecting"))

\* faulty variant: a failed fetch empties the cache
RefreshDoneClearing(S) ==
    /\ main.pc = "refresh_fetch"
    /\ lock = 0
    /\ \E r \in {Ok(data) : data \in S} \cup {Err} :
          /\ ~(r.ok /\ poisoned)
          /\ cache' = IF r.ok THEN insert_to_cache(cache, r.val) ELSE BridgeCacheDefault
          /\ main' = Idle
          /\ last' = IF r.ok THEN Applied("refresh", 0, r.val)
                     ELSE [op |-> "refresh_err", pre |-> cache, result |-> Err]
    /\ UNCHANGED <<poisoned, lock, tasks, poll_handle, listen_handle, stopped, puts, now>>

\* get_resources() of refresh answers: an error is returned to the caller
\* (the ? operator), a snapshot is inserted under the lock and Ok(()) returned
RefreshDone(S) ==
    /\ main.pc = "refresh_fetch"
    /\ lock = 0
    /\ \E r \in {Ok(data) : data \in S} \cup {Err} :
          IF r.ok /\ poisoned
          THEN main' = [pc |-> "panicked"] /\ last' = NoLast /\ UNCHANGED cache
          ELSE /\ cache' = IF r.ok THEN insert_to_cache(cache, r.val) ELSE cache
               /\ main' = Idle
               /\ last' = IF r.ok THEN Applied("refresh", 0, r.val)
                          ELSE [op |-> "refresh_err", pre |-> cache, result |-> Err]
    /\ UNCHANGED <<poisoned, lock, tasks, poll_handle, listen_handle, stopped, puts, now>>

\* faulty variant: the stop aborts every task of the kind of the stored handle
StopEvery(h) ==
    /\ tasks' = IF h = 0 THEN tasks
                ELSE [t \in DOMAIN tasks |->
                         IF tasks[t].type = tasks[h].type THEN Abort(tasks[t]) ELSE tasks[t]]
    /\ stopped' = IF h = 0 THEN stopped ELSE stopped \cup {h}
    /\ last' = NoLast
    /\ UNCHANGED <<cache, poisoned, lock, main, puts, now>>

Stop(h) ==
    /\ tasks' = IF h = 0 THEN tasks ELSE [tasks EXCEPT ![h] = Abort(@)]
    /\ stopped' = IF h = 0 THEN stopped ELSE stopped \cup {h}
    /\ last' = NoLast
    /\ UNCHANGED <<cache, poisoned, lock, main, puts, now>>

Unpoll ==
    /\ main.pc = "idle"
    /\ Stop(poll_handle)
    /\ poll_handle' = 0
    /\ UNCHANGED listen_handle

Unlisten ==
    /\ main.pc = "idle"
    /\ Stop(listen_handle)
    /\ listen_handle' = 0
    /\ UNCHANGED poll_handle

\* a synchronous accessor (data, light, n_lights, ...): lock().expect(..)
Accessor ==
    /\ main.pc = "idle"
    /\ lock = 0
    /\ main' = IF poisoned THEN [pc |-> "panicked"] ELSE main
    /\ last' = NoLast
    /\ UNCHANGED <<cache, poisoned, lock, tasks, poll_handle, listen_handle, stopped, puts, now>>

\* the kinds the model keeps a Bridge::create_<kind> / delete_<kind> for
CreateKinds == {"scene", "zone", "behavior_instance"}
\* BridgeClient::get_<kind>(id) reads the data of the answer as Vec<Data> and
\* takes its first element (get_scene, get_zone, ...), or reads it as Data
\* itself (get_behavior_instance, get_entertainment_configuration)
ListedKinds == {"scene", "zone"}

Failed(e) == [ok |-> FALSE, err |-> e]

\* the call does not return: it unwinds with a panic
Unwinds == [ok |-> FALSE, err |-> "panic"]

\* BridgeClient::get_<kind>(id) on the data member of an answer of the bridge
\* without errors.  With data null, make_request reads res.errors[0] of the
\* empty list and panics.
get_by_id(k, data) ==
    IF IsNull(data) THEN Unwinds
    ELSE IF k \in ListedKinds
    THEN LET r == FromValue(TVec(DataOf[k]), data)
         IN  IF ~r.ok THEN Failed("BadDeserialize")
             ELSE IF r.val = <<>> THEN Failed("NotFound")
             ELSE Ok(r.val[1])
    ELSE LET r == FromValue(DataOf[k], data)
         IN  IF r.ok THEN r ELSE Failed("BadDeserialize")

\* the resource a POST creates on the bridge
Created(k, id) ==
    CASE k = "scene" -> Scene(id, <<"x">>)
      [] k = "zone" -> Zone(id)
      [] k = "behavior_instance" -> [id |-> id, enabled |-> TRUE]

\* what the bridge may answer to GET /resource/<kind>/<id>: a list holding
\* the resource, an empty list, or nothing that can be read
ByIdAnswers(k, id) ==
    {Ok(JArr(<<ToValue(DataOf[k], Created(k, id))>>)), Ok(JArr(<<>>)), Failed("BadRequest")}
\* an answer with neither errors nor data
NoData == Ok(Null)

\* create_<kind>(builder) starts: its POST is in flight
CreateCall ==
    /\ main.pc = "idle"
    /\ \E k \in CreateKinds : main' = [pc |-> "create_post", kind |-> k]
    /\ last' = NoLast
    /\ UNCHANGED <<cache, poisoned, lock, tasks, poll_handle, listen_handle, stopped, puts, now>>

\* post_<kind> answers: the identifier of the resource created, after which
\* the GET by id is in flight, or an error, which is returned (the ? operator)
CreatePosted ==
    /\ main.pc = "create_post"
    /\ \E r \in {Ok("B"), Failed("BadRequest")} :
          IF r.ok
          THEN /\ main' = [pc |-> "create_get", kind |-> main.kind, rid |-> r.val]
               /\ last' = NoLast
          ELSE /\ main' = Idle
               /\ last' = [op |-> "create", kind |-> main.kind, posted |-> FALSE, rid |-> "",
                           answer |-> r, pre |-> cache, result |-> r]
    /\ UNCHANGED <<cache, poisoned, lock, tasks, poll_handle, listen_handle, stopped, puts, now>>

\* get_<kind>(rid) answers (with one of ByIdAnswers or of Also): an error is
\* returned; the data is inserted under its id into the map of the kind and
\* the wrapper returned; a panic in make_request unwinds the call, no lock
\* being held
CreateDone(Also) ==
    /\ main.pc = "create_get"
    /\ \E ans \in ByIdAnswers(main.kind, main.rid) \cup Also :
          LET r == IF ans.ok THEN get_by_id(main.kind, ans.val) ELSE ans
              rec == [op |-> "create", kind |-> main.kind, posted |-> TRUE, rid |-> main.rid,
                      answer |-> ans, pre |-> cache, result |-> r]
          IN  IF r = Unwinds
              THEN main' = [pc |-> "panicked"] /\ last' = NoLast /\ UNCHANGED cache
              ELSE IF ~r.ok
              THEN main' = Idle /\ last' = rec /\ UNCHANGED cache
              ELSE /\ lock = 0
                   /\ IF poisoned
                      THEN main' = [pc |-> "panicked"] /\ last' = NoLast /\ UNCHANGED cache
                      ELSE /\ cache' = [cache EXCEPT ![Field[main.kind]] = Put(@, r.val.id, r.val)]
                           /\ main' = Idle
                           /\ last' = rec
    /\ UNCHANGED <<poisoned, lock, tasks, poll_handle, listen_handle, stopped, puts, now>>

\* delete_<kind>(id) starts: its DELETE is in flight
DeleteCall ==
    /\ main.pc = "idle"
    /\ \E k \in CreateKinds : \E id \in {"A", "B"} :
          main' = [pc |-> "delete_req", kind |-> k, id |-> id]
    /\ last' = NoLast
    /\ UNCHANGED <<cache, poisoned, lock, tasks, poll_handle, listen_handle, stopped, puts, now>>

\* the DELETE answers: an error is returned; the identifiers the bridge
\* acknowledges (the one asked for, and those of Also) go to
\* delete_from_cache under the lock and are returned
DeleteDone(Also) ==
    /\ main.pc = "delete_req"
    /\ \E r \in {Ok(<<ResourceIdentifier(main.id, main.kind)>> \o also) : also \in Also}
                 \cup {Failed("BadRequest")} :
          LET rec == [op |-> "delete_call", kind |-> main.kind, id |-> main.id,
                      pre |-> cache, result |-> r]
          IN  IF ~r.ok
              THEN main' = Idle /\ last' = rec /\ UNCHANGED <<cache, poisoned>>
              ELSE /\ lock = 0
                   /\ IF poisoned
                      THEN /\ main' = [pc |-> "panicked"] /\ last' = NoLast
                           /\ UNCHANGED <<cache, poisoned>>
                      ELSE \E out \in delete_from_cache(cache, r.val) :
                              /\ cache' = out.cache
                              /\ poisoned' = out.panicked
                              /\ main' = IF out.panicked THEN [pc |-> "panicked"] ELSE Idle
                              /\ last' = rec
    /\ UNCHANGED <<lock, tasks, poll_handle, listen_handle, stopped, puts, now>>

(***************************************************************************)
(* The poll task (the loop spawned by Bridge::poll)                        *)
(***************************************************************************)
Step(t, tk) == tasks' = [tasks EXCEPT ![t] = tk]
IsTask(t, type, st) == tasks[t].type = type /\ tasks[t].st = st
Tasks == 1..Len(tasks)

\* faulty variant: MissedTickBehavior::Burst, the next tick is due one
\* heartbeat after the time this one was due
PollTickBurst(clocked) ==
    /\ \E t \in Tasks :
          /\ IsTask(t, "poll", "tick_wait")
          /\ clocked => tasks[t].due <= now
          /\ Step(t, AtAwait([tasks[t] EXCEPT !.due = IF clocked THEN @ + 1 ELSE @,
                                              !.asked = IF clocked THEN now ELSE @],
                             "fetching"))
          /\ last' = [op |-> "fetch", by |-> t, at |-> now, born |-> tasks[t].born,
                      prev |-> tasks[t].asked,
                      after_err |-> last.op = "fetch_err" /\ last.by = t]
    /\ UNCHANGED <<cache, poisoned, lock, main, poll_handle, listen_handle, stopped, puts, now>>

\* interval.tick() completes once the tick is due, the next tick being due
\* one heartbeat later (MissedTickBehavior::Delay: one heartbeat after this
\* completion); the next iteration of the loop asks for the resources: its
\* request is sent, and a task aborted meanwhile is dropped at its await.
\* Runs that leave the clock out (clocked = FALSE) let a tick complete at
\* any time.
PollTick(clocked) ==
    /\ \E t \in Tasks :
          /\ IsTask(t, "poll", "tick_wait")
          /\ clocked => tasks[t].due <= now
          /\ Step(t, AtAwait([tasks[t] EXCEPT !.due = IF clocked THEN now + 1 ELSE @,
                                              !.asked = IF clocked THEN now ELSE @],
                             "fetching"))
          /\ last' = [op |-> "fetch", by |-> t, at |-> now, born |-> tasks[t].born,
                      prev |-> tasks[t].asked,
                      after_err |-> last.op = "fetch_err" /\ last.by = t]
    /\ UNCHANGED <<cache, poisoned, lock, main, poll_handle, listen_handle, stopped, puts, now>>

\* faulty variant: a failed fetch ends the task
PollFetchedEnding(S) ==
    /\ \E t \in Tasks :
          /\ IsTask(t, "poll", "fetching")
          /\ \E r \in {Ok(data) : data \in S} \cup {Err} :
                /\ Step(t, IF r.ok THEN [tasks[t] EXCEPT !.st = "locking", !.data = r.val]
                           ELSE [tasks[t] EXCEPT !.st = "ended"])
                /\ last' = IF r.ok THEN NoLast
                           ELSE [op |-> "fetch_err", by |-> t, pre |-> cache, main |-> main,
                                 task |-> tasks[t]]
    /\ UNCHANGED <<cache, poisoned, lock, main, poll_handle, listen_handle, stopped, puts, now>>

\* get_resources() answers
PollFetched(S) ==
    /\ \E t \in Tasks :
          /\ IsTask(t, "poll", "fetching")
          /\ \E r \in {Ok(data) : data \in S} \cup {Err} :
                /\ Step(t, IF r.ok THEN [tasks[t] EXCEPT !.st = "locking", !.data = r.val]
                           ELSE [tasks[t] EXCEPT !.st = "tick_wait"])
                /\ last' = IF r.ok THEN NoLast
                           ELSE [op |-> "fetch_err", by |-> t, pre |-> cache, main |-> main,
                                 task |-> tasks[t]]
    /\ UNCHANGED <<cache, poisoned, lock, main, poll_handle, listen_handle, stopped, puts, now>>

\* faulty variant: the snapshot fetched is thrown away
PollInsertSkipping ==
    /\ lock = 0
    /\ \E t \in Tasks :
          /\ IsTask(t, "poll", "locking")
          /\ (\E tk \in AtTick([tasks[t] EXCEPT !.data = <<>>]) : Step(t, tk))
    /\ last' = NoLast
    /\ UNCHANGED <<cache, poisoned, lock, main, poll_handle, listen_handle, stopped, puts, now>>

\* insert_to_cache(&mut cache.lock().unwrap(), data), then on to the tick
\* faulty variant: the snapshot overwrites the entries that are cached and
\* adds none
PollInsertKnown ==
    /\ lock = 0
    /\ \E t \in Tasks :
          /\ IsTask(t, "poll", "locking")
          /\ IF poisoned
             THEN /\ Step(t, [tasks[t] EXCEPT !.st = "panicked", !.data = <<>>])
                  /\ last' = NoLast
                  /\ UNCHANGED cache
             ELSE /\ cache' = insert_to_cache(cache,
                                  SelectSeq(tasks[t].data,
                                            LAMBDA r : /\ r.kind \in DOMAIN Field
                                                       /\ r.d.id \in DOMAIN cache[Field[r.kind]]))
                  /\ (\E tk \in AtTick([tasks[t] EXCEPT !.data = <<>>]) : Step(t, tk))
                  /\ last' = Applied("tick", t, tasks[t].data)
    /\ UNCHANGED <<poisoned, lock, main, poll_handle, listen_handle, stopped, puts, now>>

\* faulty variant: the poll task takes the cache out of a poisoned lock
PollInsertRecovering ==
    /\ lock = 0
    /\ \E t \in Tasks :
          /\ IsTask(t, "poll", "locking")
          /\ cache' = insert_to_cache(cache, tasks[t].data)
          /\ (\E tk \in AtTick([tasks[t] EXCEPT !.data = <<>>]) : Step(t, tk))
          /\ last' = Applied("tick", t, tasks[t].data)
    /\ UNCHANGED <<poisoned, lock, main, poll_handle, listen_handle, stopped, puts, now>>

PollInsert ==
    /\ lock = 0
    /\ \E t \in Tasks :
          /\ IsTask(t, "poll", "locking")
          /\ IF poisoned
             THEN /\ Step(t, [tasks[t] EXCEPT !.st = "panicked", !.data = <<>>])
                  /\ last' = NoLast
                  /\ UNCHANGED cache
             ELSE /\ cache' = insert_to_cache(cache, tasks[t].data)
                  /\ (\E tk \in AtTick([tasks[t] EXCEPT !.data = <<>>]) : Step(t, tk))
                  /\ last' = Applied("tick", t, tasks[t].data)
    /\ UNCHANGED <<poisoned, lock, main, poll_handle, listen_handle, stopped, puts, now>>

\* one heartbeat passes while a poll task sleeps until its next tick or
\* waits for the answer to its request
Advance(horizon) ==
    /\ now < horizon
    /\ \E t \in Tasks :
          \/ IsTask(t, "poll", "tick_wait") /\ tasks[t].due > now
          \/ IsTask(t, "poll", "fetching")
    /\ now' = now + 1
    /\ last' = NoLast
    /\ UNCHANGED <<cache, poisoned, lock, main, tasks, poll_handle, listen_handle, stopped, puts>>

(***************************************************************************)
(* The listen task (the future spawned by Bridge::listen)                  *)
(***************************************************************************)
\* get_event_stream() answers: the stream, or an error that ends the task
ListenerConnect ==
    /\ \E t \in Tasks :
          /\ IsTask(t, "listen", "connecting")
          /\ \E ok \in BOOLEAN :
                Step(t, [tasks[t] EXCEPT !.st = IF ok THEN "streaming" ELSE "ended"])
    /\ last' = NoLast
    /\ UNCHANGED <<cache, poisoned, lock, main, poll_handle, listen_handle, stopped, puts, now>>

\* es.next() yields an item that changes nothing (Event::Open, a message that
\* is no Vec<HueEvent>, a stream error) or None, which ends the task
ListenerItem ==
    /\ \E t \in Tasks :
          /\ IsTask(t, "listen", "streaming")
          /\ \E item \in {"open", "unparsed", "error", "closed"} :
                /\ Step(t, [tasks[t] EXCEPT !.st = IF item = "closed" THEN "ended" ELSE @])
                /\ last' = IF item = "unparsed" THEN [op |-> "unparsed", by |-> t, pre |-> cache]
                           ELSE NoLast
    /\ UNCHANGED <<cache, poisoned, lock, main, poll_handle, listen_handle, stopped, puts, now>>

\* es.next() yields a message that parses to Vec<HueEvent>
ListenerMessage ==
    /\ \E t \in Tasks :
          /\ IsTask(t, "listen", "streaming")
          /\ Step(t, [tasks[t] EXCEPT !.st = "locking"])
    /\ last' = NoLast
    /\ UNCHANGED <<cache, poisoned, lock, main, poll_handle, listen_handle, stopped, puts, now>>

\* cache.lock().expect("lock cache")
ListenerLock ==
    /\ lock = 0
    /\ \E t \in Tasks :
          /\ IsTask(t, "listen", "locking")
          /\ IF poisoned
             THEN Step(t, [tasks[t] EXCEPT !.st = "panicked"]) /\ UNCHANGED lock
             ELSE Step(t, [tasks[t] EXCEPT !.st = "applying", !.n = 0, !.changes = {}])
                  /\ lock' = t
    /\ last' = NoLast
    /\ UNCHANGED <<cache, poisoned, main, poll_handle, listen_handle, stopped, puts, now>>

\* the task panics with the guard held: the Mutex is poisoned
Panicked(t) ==
    /\ poisoned' = TRUE
    /\ lock' = 0
    /\ Step(t, [tasks[t] EXCEPT !.st = "panicked"])

\* what the step of task t on its event did
Did(op, t, arg, panicked) ==
    [op |-> op, by |-> t, pre |-> cache, arg |-> arg, panicked |-> panicked,
     raw |-> tasks[t].raw, stopped |-> t \in stopped, cancel |-> tasks[t].cancel]

\* faulty variant: an Error event empties the cache
ListenerEventClearing(batch) ==
    /\ \E t \in Tasks :
          /\ IsTask(t, "listen", "applying")
          /\ tasks[t].n < batch
          /\ \E etype \in {"update", "add", "delete", "error"} :
                /\ Step(t, IF etype = "error" THEN [tasks[t] EXCEPT !.n = @ + 1]
                              ELSE [tasks[t] EXCEPT !.n = @ + 1, !.st = "event",
                                                    !.etype = etype, !.m = 0, !.data = <<>>])
                /\ cache' = IF etype = "error" THEN BridgeCacheDefault ELSE cache
                /\ last' = IF etype = "error"
                           THEN [op |-> "error", by |-> t, pre |-> cache, task |-> tasks[t]]
                           ELSE [op |-> "event", by |-> t, etype |-> etype,
                                 after_error |-> last.op = "error" /\ last.by = t]
    /\ UNCHANGED <<poisoned, lock, main, poll_handle, listen_handle, stopped, puts, now>>

\* upsert_to_cache takes the next event of the batch; an Error event is
\* logged and the loop goes on
ListenerEvent(batch) ==
    /\ \E t \in Tasks :
          /\ IsTask(t, "listen", "applying")
          /\ tasks[t].n < batch
          /\ \E etype \in {"update", "add", "delete", "error"} :
                /\ Step(t, IF etype = "error" THEN [tasks[t] EXCEPT !.n = @ + 1]
                              ELSE [tasks[t] EXCEPT !.n = @ + 1, !.st = "event",
                                                    !.etype = etype, !.m = 0, !.data = <<>>])
                /\ last' = IF etype = "error"
                           THEN [op |-> "error", by |-> t, pre |-> cache, task |-> tasks[t]]
                           ELSE [op |-> "event", by |-> t, etype |-> etype,
                                 after_error |-> last.op = "error" /\ last.by = t]
    /\ UNCHANGED <<cache, poisoned, lock, main, poll_handle, listen_handle, stopped, puts, now>>

InEvent(t, etype, items) ==
    IsTask(t, "listen", "event") /\ tasks[t].etype = etype /\ tasks[t].m < items

\* faulty variant: the wrappers the caller holds follow the cache
ListenerUpdateLive(P, items) ==
    /\ \E t \in Tasks :
          /\ InEvent(t, "update", items)
          /\ \E ed \in P :
             LET out == UpdateDatum([cache |-> cache, changes |-> tasks[t].changes,
                                     panicked |-> FALSE], ed)
                 now_is(d) == IF d.id \in DOMAIN out.cache.lights THEN out.cache.lights[d.id]
                              ELSE d
             IN  /\ cache' = out.cache
                 /\ IF out.panicked THEN Panicked(t)
                    ELSE /\ Step(t, [tasks[t] EXCEPT !.m = @ + 1, !.changes = out.changes])
                         /\ UNCHANGED <<poisoned, lock>>
                 /\ last' = Did("update", t, ed, out.panicked)
                 /\ main' = IF "list" \in DOMAIN main /\ main.kind = "light"
                            THEN [main EXCEPT !.list = {now_is(d) : d \in @}]
                            ELSE IF "light" \in DOMAIN main /\ main.light.some
                            THEN [main EXCEPT !.light = Some(now_is(@.val))]
                            ELSE main
    /\ UNCHANGED <<poll_handle, listen_handle, stopped, puts, now>>

\* one item of an Update event: merged into the entry it names
ListenerUpdate(P, items) ==
    /\ \E t \in Tasks :
          /\ InEvent(t, "update", items)
          /\ \E ed \in P :
             LET out == UpdateDatum([cache |-> cache, changes |-> tasks[t].changes,
                                     panicked |-> FALSE], ed)
             IN  /\ cache' = out.cache
                 /\ IF out.panicked THEN Panicked(t)
                    ELSE /\ Step(t, [tasks[t] EXCEPT !.m = @ + 1, !.changes = out.changes])
                         /\ UNCHANGED <<poisoned, lock>>
                 /\ last' = Did("update", t, ed, out.panicked)
    /\ UNCHANGED <<main, poll_handle, listen_handle, stopped, puts, now>>

\* one item of an Add or Delete event: collected, or dropped by the filter
ListenerCollect(A, D, items) ==
    /\ \E t \in Tasks :
       \E etype \in {"add", "delete"} :
          /\ InEvent(t, etype, items)
          /\ \E ed \in IF etype = "add" THEN A ELSE D :
             LET r == IF etype = "add" THEN AddDatum(ed) ELSE DeleteDatum(ed)
             IN  /\ IF r.some /\ ~r.val.ok THEN Panicked(t)
                    ELSE /\ Step(t, [tasks[t] EXCEPT
                                        !.m = @ + 1,
                                        !.raw = Append(@, ed),
                                        !.data = IF r.some THEN Append(@, r.val.val) ELSE @])
                         /\ UNCHANGED <<poisoned, lock>>
                 /\ last' = NoLast
    /\ UNCHANGED <<cache, main, poll_handle, listen_handle, stopped, puts, now>>

\* faulty variant: the guard is dropped at the end of every event
ListenerApplyReleasing ==
    /\ \E t \in Tasks :
          /\ IsTask(t, "listen", "event")
          /\ tasks[t].m >= 1
          /\ LET tk == [tasks[t] EXCEPT !.st = "applying", !.etype = "", !.m = 0,
                                           !.raw = <<>>, !.data = <<>>]
                 arg == tasks[t].data
             IN  CASE tasks[t].etype = "update" ->
                        /\ Step(t, tk)
                        /\ last' = NoLast
                        /\ lock' = 0
                        /\ UNCHANGED <<cache, poisoned>>
                   [] tasks[t].etype = "add" ->
                        /\ cache' = insert_to_cache(cache, arg)
                        /\ Step(t, tk)
                        /\ last' = Did("add", t, arg, FALSE)
                        /\ lock' = 0
                        /\ UNCHANGED poisoned
                   [] tasks[t].etype = "delete" ->
                        \E out \in delete_from_cache(cache, arg) :
                           /\ cache' = out.cache
                           /\ IF out.panicked THEN Panicked(t)
                              ELSE Step(t, tk) /\ lock' = 0 /\ UNCHANGED poisoned
                           /\ last' = Did("delete", t, arg, out.panicked)
    /\ UNCHANGED <<main, poll_handle, listen_handle, stopped, puts, now>>

\* the items of the event are used up: an Add inserts what it collected, a
\* Delete removes what it collected
ListenerApply ==
    /\ \E t \in Tasks :
          /\ IsTask(t, "listen", "event")
          /\ tasks[t].m >= 1
          /\ LET tk == [tasks[t] EXCEPT !.st = "applying", !.etype = "", !.m = 0,
                                           !.raw = <<>>, !.data = <<>>]
                 arg == tasks[t].data
             IN  CASE tasks[t].etype = "update" ->
                        /\ Step(t, tk)
                        /\ last' = NoLast
                        /\ UNCHANGED <<cache, poisoned, lock>>
                   [] tasks[t].etype = "add" ->
                        /\ cache' = insert_to_cache(cache, arg)
                        /\ Step(t, tk)
                        /\ last' = Did("add", t, arg, FALSE)
                        /\ UNCHANGED <<poisoned, lock>>
                   [] tasks[t].etype = "delete" ->
                        \E out \in delete_from_cache(cache, arg) :
                           /\ cache' = out.cache
                           /\ IF out.panicked THEN Panicked(t)
                              ELSE Step(t, tk) /\ UNCHANGED <<poisoned, lock>>
                           /\ last' = Did("delete", t, arg, out.panicked)
    /\ UNCHANGED <<main, poll_handle, listen_handle, stopped, puts, now>>

\* faulty variant: the guard is kept while the task waits for the stream
ListenerDoneHolding ==
    /\ \E t \in Tasks :
          /\ IsTask(t, "listen", "applying")
          /\ Step(t, AtAwait([tasks[t] EXCEPT !.changes = {}, !.n = 0], "streaming"))
          /\ last' = [op |-> "callback", by |-> t, changes |-> tasks[t].changes,
                      holder |-> lock, events |-> tasks[t].n]
    /\ UNCHANGED <<cache, poisoned, lock, main, poll_handle, listen_handle, stopped, puts, now>>

\* the batch is done: cb(changes) runs, then the guard is dropped and the
\* task is back at es.next().await.  A task aborted meanwhile is dropped
\* there, unless the stream has the next message buffered: then the await
\* completes without suspending and the task goes on with that message.
ListenerDone ==
    /\ \E t \in Tasks :
          /\ IsTask(t, "listen", "applying")
          /\ \E buffered \in IF tasks[t].cancel THEN BOOLEAN ELSE {FALSE} :
                Step(t, IF buffered THEN [tasks[t] EXCEPT !.changes = {}, !.n = 0, !.st = "locking"]
                        ELSE AtAwait([tasks[t] EXCEPT !.changes = {}, !.n = 0], "streaming"))
          /\ last' = [op |-> "callback", by |-> t, changes |-> tasks[t].changes,
                      holder |-> lock, events |-> tasks[t].n]
    /\ lock' = 0
    /\ UNCHANGED <<cache, poisoned, main, poll_handle, listen_handle, stopped, puts, now>>

(***************************************************************************)
(* Reconciliation runs.  Bridge::listen has returned: its eager fetch      *)
(* failed or was applied and its task is spawned.  The stream delivers     *)
(* events of every type; the foreground reads and may call unlisten.       *)
(***************************************************************************)
InitRecon ==
    /\ cache \in {BridgeCacheDefault}
                    \cup {insert_to_cache(BridgeCacheDefault, data) : data \in ReconSnapshots}
    /\ poisoned = FALSE
    /\ lock = 0
    /\ main = Idle
    /\ now = 0
    /\ tasks = <<NewTask("listen", "connecting")>>
    /\ poll_handle = 0
    /\ listen_handle = 1
    /\ stopped = {}
    /\ puts = <<>>
    /\ last = NoLast

NextRecon ==
    \/ Unlisten
    \/ Accessor
    \/ ListenerConnect
    \/ ListenerItem
    \/ ListenerMessage
    \/ ListenerLock
    \/ ListenerEvent(MaxBatch)
    \/ ListenerUpdate(Patches, MaxData)
    \/ ListenerCollect(Additions, Deletions, MaxData)
    \/ ListenerApply
    \/ ListenerDone

SpecRecon == InitRecon /\ [][NextRecon]_vars

(***************************************************************************)
(* Lifecycle runs: from construction, every call that starts, stops or     *)
(* refreshes synchronisation, both background tasks, a few events.         *)
(***************************************************************************)
LifePatches == {Datum("light", JObj(Id("A") @@ "on" :> JObj("on" :> JBool(TRUE))))}
LifeAdditions == {Datum("light", ToValue(LightData, Light("B", TRUE, 50, None)))}
LifeDeletions == {Datum("light", JObj(Id("A")))}

Next ==
    \/ PollCall
    \/ PollStarted(LifeSnapshots)
    \/ Unpoll
    \/ ListenCall
    \/ ListenStarted(LifeSnapshots)
    \/ Unlisten
    \/ RefreshCall
    \/ RefreshDone(LifeSnapshots)
    \/ Accessor
    \/ PollTick(FALSE)
    \/ PollFetched(LifeSnapshots)
    \/ PollInsert
    \/ ListenerConnect
    \/ ListenerItem
    \/ ListenerMessage
    \/ ListenerLock
    \/ ListenerEvent(LifeBatch)
    \/ ListenerUpdate(LifePatches, LifeData)
    \/ ListenerCollect(LifeAdditions, LifeDeletions, LifeData)
    \/ ListenerApply
    \/ ListenerDone

Spec == Init /\ [][Next]_vars

(***************************************************************************)
(* Polling against the clock: poll, its task and unpoll, with the clock    *)
(* advancing one heartbeat at a time.                                      *)
(***************************************************************************)
MaxTime == 2       \* heartbeats the clock runs for

NextPoll ==
    \/ PollCall
    \/ PollStarted(LifeSnapshots)
    \/ Unpoll
    \/ PollTick(TRUE)
    \/ PollFetched(LifeSnapshots)
    \/ PollInsert
    \/ Advance(MaxTime)

SpecPoll == Init /\ [][NextPoll]_vars

(***************************************************************************)
(* Repeated starts: poll and listen called again with no stop in between.  *)
(***************************************************************************)
MaxStarts == 2     \* calls of poll / listen in one run
TwiceBatch == 1    \* HueEvents in one stream message
TwiceData == 1     \* data items in one HueEvent

TwiceSnapshots ==
    {<<Res("light", Light("A", FALSE, 80, Some(1)))>>,
     <<Res("light", Light("A", TRUE, 50, None))>>}

NextTwice ==
    \/ StartCall("poll_fetch", MaxStarts)
    \/ PollStarted(TwiceSnapshots)
    \/ Unpoll
    \/ StartCall("listen_fetch", MaxStarts)
    \/ ListenStarted(TwiceSnapshots)
    \/ Unlisten
    \/ PollTick(FALSE)
    \/ PollFetched(TwiceSnapshots)
    \/ PollInsert
    \/ ListenerConnect
    \/ ListenerItem
    \/ ListenerMessage
    \/ ListenerLock
    \/ ListenerEvent(TwiceBatch)
    \/ ListenerUpdate(LifePatches, TwiceData)
    \/ ListenerCollect(LifeAdditions, LifeDeletions, TwiceData)
    \/ ListenerApply
    \/ ListenerDone

SpecTwice == Init /\ [][NextTwice]_vars

(***************************************************************************)
(* Mixed input: snapshots and events in which resources of kinds the       *)
(* crate knows stand next to unit variants and unknown tags.               *)
(***************************************************************************)
MixedSnapshots ==
    {<<Res("unknown", Null), Res("light", Light("A", FALSE, 80, Some(1)))>>,
     <<Res("light", Light("B", TRUE, 50, None)), Res("geofence", Null)>>}
MixedPatches ==
    {Datum("unknown", Null), Datum("light", JObj(Id("A") @@ "on" :> JObj("on" :> JBool(TRUE))))}
MixedAdditions ==
    {Datum("unknown", Null), Datum("light", ToValue(LightData, Light("B", TRUE, 50, None)))}
MixedDeletions ==
    {Datum("unknown", Null), Datum("geofence", Null), Datum("light", JObj(Id("A")))}

NextMixed ==
    \/ RefreshCall
    \/ RefreshDone(MixedSnapshots)
    \/ ListenCall
    \/ ListenStarted(MixedSnapshots)
    \/ Unlisten
    \/ ListenerConnect
    \/ ListenerItem
    \/ ListenerMessage
    \/ ListenerLock
    \/ ListenerEvent(MaxBatch)
    \/ ListenerUpdate(MixedPatches, MaxData)
    \/ ListenerCollect(MixedAdditions, MixedDeletions, MaxData)
    \/ ListenerApply
    \/ ListenerDone

SpecMixed == Init /\ [][NextMixed]_vars

(***************************************************************************)
(* Commands (src/src/command/mod.rs) and Light::send                       *)
(***************************************************************************)
MaxCmds == 2       \* commands in one send
MaxPuts == 1       \* PUT requests in one run

On(b) == [c |-> "On", on |-> b]
Dim(pct) == [c |-> "Dim", pct |-> pct]
Dynamics(duration, speed) == [c |-> "Dynamics", duration |-> duration, speed |-> speed]
Metadata(name, archetype) == [c |-> "Metadata", name |-> name, archetype |-> archetype]
\* SceneCommand::Actions: one SceneAction for each mirek of the list, its
\* LightAction holding color_temperature: Some(SceneColorTempState { mirek })
Actions(mireks) == [c |-> "Actions", mireks |-> mireks]

\* impl Serialize for LightCommand, and for SceneCommand::Actions
Serialize(cmd) ==
    CASE cmd.c = "On" -> JObj("on" :> ToValue(OnState, [on |-> cmd.on]))
      [] cmd.c = "Dim" -> JObj("dimming" :> JObj("brightness" :> JNum(cmd.pct)))
      [] cmd.c = "Dynamics" ->
            JObj("dynamics" :> JObj("duration" :> ToValue(TOpt(TNum), cmd.duration)
                                    @@ "speed" :> ToValue(TOpt(TNum), cmd.speed)))
      [] cmd.c = "Metadata" ->
            JObj("metadata" :> JObj("name" :> ToValue(TOpt(TStr), cmd.name)
                                    @@ "archetype" :> ToValue(TOpt(TStr), cmd.archetype)))
      [] cmd.c = "Actions" ->
            JObj("actions" :>
                 JArr([i \in 1..Len(cmd.mireks) |->
                         JObj("target" :> JObj("rid" :> JStr("A") @@ "rtype" :> JStr("light"))
                              @@ "action" :>
                                 JObj("color_temperature" :>
                                      JObj("mirek" :> ToValue(TOpt(TNum), cmd.mireks[i]))))]))

RECURSIVE MergeInto(_, _)
MergeInto(map, commands) ==
    IF commands = <<>> THEN map
    ELSE MergeInto(Merge(map, Serialize(Head(commands))), Tail(commands))

Reverse(q) == [i \in 1..Len(q) |-> q[Len(q) + 1 - i]]
\* faulty variant: the commands are folded from last to first
merge_commands_backwards(commands) == MergeInto(EmptyObj, Reverse(commands))

merge_commands(commands) == MergeInto(EmptyObj, commands)

LightCommands ==
    {On(TRUE), Dim(80), Dim(50), Dynamics(Some(1), None), Dynamics(None, Some(2))}

\* Bridge::light(id): a wrapper holding a clone of the cached data
GetLight ==
    /\ main.pc = "idle"
    /\ lock = 0
    /\ \E id \in {"A", "B"} :
          IF poisoned THEN main' = [pc |-> "panicked"] /\ last' = NoLast
          ELSE LET got == IF id \in DOMAIN cache.lights THEN Some(cache.lights[id]) ELSE None
               IN  /\ main' = [pc |-> "idle", light |-> got]
                   /\ last' = [op |-> "get", id |-> id, got |-> got,
                               sent |-> last.op = "send" /\ last.id = id,
                               pre |-> IF last.op = "send" THEN last.pre ELSE cache,
                               toggled |-> IF last.op = "toggle" /\ last.id = id /\ last.fresh
                                           THEN Some(last.on) ELSE None]
    /\ UNCHANGED <<cache, poisoned, lock, tasks, poll_handle, listen_handle, stopped, puts, now>>

\* the PUT of a send or toggle is answered: the call returns the
\* identifiers the bridge acknowledges, or an error
PutAnswers(id) == {Ok(<<ResourceIdentifier(id, "light")>>), Err}

\* faulty variant: the payload is also merged into the cached entry
SendWriteThrough(C) ==
    /\ main.pc = "idle"
    /\ "light" \in DOMAIN main /\ main.light.some
    /\ Len(puts) < MaxPuts
    /\ \E commands \in SeqsOf(C, 0, MaxCmds) :
          LET payload == merge_commands(commands)
              id == main.light.val.id
              r == merge_resource_data(LightData, main.light.val, payload)
          IN  /\ puts' = Append(puts, [id |-> id, body |-> payload])
              /\ cache' = IF r.ok THEN [cache EXCEPT !.lights = Put(@, id, r.val)] ELSE cache
              /\ main' = [pc |-> "send_req", light |-> main.light,
                          call |-> [op |-> "send", id |-> id, pre |-> cache,
                                    commands |-> commands, puts |-> puts, result |-> Err]]
    /\ last' = NoLast
    /\ UNCHANGED <<poisoned, lock, tasks, poll_handle, listen_handle, stopped, now>>

\* Light::send(commands) starts: the commands are merged and the PUT is in
\* flight (put_light(..).await); the call holds what it was called with
Send(C) ==
    /\ main.pc = "idle"
    /\ "light" \in DOMAIN main /\ main.light.some
    /\ Len(puts) < MaxPuts
    /\ \E commands \in SeqsOf(C, 0, MaxCmds) :
          LET payload == merge_commands(commands)
              id == main.light.val.id
          IN  /\ puts' = Append(puts, [id |-> id, body |-> payload])
              /\ main' = [pc |-> "send_req", light |-> main.light,
                          call |-> [op |-> "send", id |-> id, pre |-> cache,
                                    commands |-> commands, puts |-> puts, result |-> Err]]
    /\ last' = NoLast
    /\ UNCHANGED <<cache, poisoned, lock, tasks, poll_handle, listen_handle, stopped, now>>

\* the PUT is answered and send returns the answer
SendDone ==
    /\ main.pc = "send_req"
    /\ \E r \in PutAnswers(main.call.id) :
          last' = [main.call EXCEPT !.result = r]
    /\ main' = [pc |-> "idle", light |-> main.light]
    /\ UNCHANGED <<cache, poisoned, lock, tasks, poll_handle, listen_handle, stopped, puts, now>>

MaxToggles == 2    \* toggle() calls in one run

\* what a toggle records: the power value sent, the wrapper it was computed
\* from, whether the wrapper still equalled the cached entry (fresh), and the
\* value the toggle before sent when that was a toggle of this wrapper or
\* of a wrapper of the same light, fresh then, that this one was read after
ToggleRecord(w, on) ==
    [op |-> "toggle", id |-> w.id, on |-> on, wrapper |-> w, pre |-> cache, puts |-> puts,
     fresh |-> w.id \in DOMAIN cache.lights /\ cache.lights[w.id] = w,
     prev |-> IF last.op = "toggle" THEN Some(last.on)
              ELSE IF last.op = "get" /\ last.id = w.id THEN last.toggled
              ELSE None,
     result |-> Err]

\* faulty variant: the power value sent is written to the cached entry
ToggleWriteThrough ==
    /\ main.pc = "idle"
    /\ "light" \in DOMAIN main /\ main.light.some
    /\ Len(puts) < MaxToggles
    /\ LET w == main.light.val
           on == ~w.on.on
       IN  /\ puts' = Append(puts, [id |-> w.id, body |-> merge_commands(<<On(on)>>)])
           /\ cache' = IF w.id \in DOMAIN cache.lights
                       THEN [cache EXCEPT !.lights[w.id].on.on = on] ELSE cache
           /\ main' = [pc |-> "toggle_req", light |-> main.light, call |-> ToggleRecord(w, on)]
    /\ last' = NoLast
    /\ UNCHANGED <<poisoned, lock, tasks, poll_handle, listen_handle, stopped, now>>

\* Light::toggle() starts: send(&[LightCommand::On(!self.is_on())]), is_on()
\* being the on.on of the data the wrapper holds; the PUT is in flight
Toggle ==
    /\ main.pc = "idle"
    /\ "light" \in DOMAIN main /\ main.light.some
    /\ Len(puts) < MaxToggles
    /\ LET w == main.light.val
           on == ~w.on.on
       IN  /\ puts' = Append(puts, [id |-> w.id, body |-> merge_commands(<<On(on)>>)])
           /\ main' = [pc |-> "toggle_req", light |-> main.light, call |-> ToggleRecord(w, on)]
    /\ last' = NoLast
    /\ UNCHANGED <<cache, poisoned, lock, tasks, poll_handle, listen_handle, stopped, now>>

\* the PUT is answered and toggle returns the answer
ToggleDone ==
    /\ main.pc = "toggle_req"
    /\ \E r \in PutAnswers(main.call.id) :
          last' = [main.call EXCEPT !.result = r]
    /\ main' = [pc |-> "idle", light |-> main.light]
    /\ UNCHANGED <<cache, poisoned, lock, tasks, poll_handle, listen_handle, stopped, puts, now>>

\* commands of the lists that are merged in the composition runs
AnyCommands ==
    {On(TRUE), On(FALSE), Dim(80), Dim(50),
     Dynamics(Some(1), None), Dynamics(None, Some(2)), Dynamics(None, None),
     Metadata(Some("n"), None), Metadata(None, None),
     Actions(<<Some(1)>>), Actions(<<None>>)}

\* merge_commands(commands) is called and returns
MergeCall ==
    /\ \E commands \in SeqsOf(AnyCommands, 0, MaxCmds) :
          last' = [op |-> "merge", commands |-> commands, result |-> merge_commands(commands)]
    /\ UNCHANGED <<cache, poisoned, lock, main, tasks, poll_handle, listen_handle, stopped,
                   puts, now>>

SpecMerge == Init /\ [][MergeCall]_vars

\* what the bridge may answer to GET /resource in the command runs
SendSnapshots ==
    {<<Res("light", Light("A", FALSE, 80, Some(1)))>>,
     <<Res("light", Light("A", TRUE, 50, Some(1))), Res("light", Light("B", TRUE, 50, None))>>}

NextSend ==
    \/ RefreshCall
    \/ RefreshDone(SendSnapshots)
    \/ GetLight
    \/ Send(LightCommands)
    \/ SendDone

SpecSend == Init /\ [][NextSend]_vars

NextToggle ==
    \/ RefreshCall
    \/ RefreshDone(SendSnapshots)
    \/ GetLight
    \/ Toggle
    \/ ToggleDone

SpecToggle == Init /\ [][NextToggle]_vars

(***************************************************************************)
(* Reads: Bridge::light(id), Bridge::lights(), Bridge::n_lights() and      *)
(* their likes for the other kinds, next to a listen task and refresh.     *)
(***************************************************************************)
\* the map each n_<kind>s() takes the len() of
Counted == [light |-> "lights", scene |-> "scenes", zone |-> "zones",
            behavior_instance |-> "behavior_scripts",
            behavior_script |-> "behavior_scripts"]

\* get(&id).map(|data| Wrapper::new(&self, data.clone()))
GetOf(c, k, id) == IF id \in DOMAIN c[Field[k]] THEN Some(c[Field[k]][id]) ELSE None
\* iter().map(|(_, data)| Wrapper::new(&self, data.clone())).collect(): the
\* clones, in the arbitrary order of the HashMap (kept as a set)
ListOf(c, k) == {c[Field[k]][id] : id \in DOMAIN c[Field[k]]}
\* len()
CountOf(c, k) == Cardinality(DOMAIN c[Counted[k]])

\* Bridge::lights() and its likes: the list is built under the lock
ListCall ==
    /\ main.pc = "idle"
    /\ lock = 0
    /\ \E k \in {"light", "behavior_instance"} :
          IF poisoned THEN main' = [pc |-> "panicked"] /\ last' = NoLast
          ELSE /\ main' = [pc |-> "idle", kind |-> k, list |-> ListOf(cache, k)]
               /\ last' = [op |-> "list", kind |-> k, got |-> ListOf(cache, k)]
    /\ UNCHANGED <<cache, poisoned, lock, tasks, poll_handle, listen_handle, stopped, puts, now>>

\* Bridge::n_lights() and its likes
CountCall ==
    /\ main.pc = "idle"
    /\ lock = 0
    /\ \E k \in StoredKinds :
          IF poisoned THEN main' = [pc |-> "panicked"] /\ last' = NoLast
          ELSE /\ main' = [pc |-> "idle", n |-> CountOf(cache, k)]
               /\ last' = [op |-> "count", kind |-> k, n |-> CountOf(cache, k)]
    /\ UNCHANGED <<cache, poisoned, lock, tasks, poll_handle, listen_handle, stopped, puts, now>>

ReadSnapshots ==
    {<<Res("light", Light("A", FALSE, 80, Some(1))),
       Res("behavior_instance", [id |-> "A", enabled |-> TRUE])>>,
     <<Res("light", Light("B", TRUE, 50, None))>>}

NextRead ==
    \/ RefreshCall
    \/ RefreshDone(ReadSnapshots)
    \/ ListenCall
    \/ ListenStarted(ReadSnapshots)
    \/ Unlisten
    \/ GetLight
    \/ ListCall
    \/ CountCall
    \/ ListenerConnect
    \/ ListenerItem
    \/ ListenerMessage
    \/ ListenerLock
    \/ ListenerEvent(LifeBatch)
    \/ ListenerUpdate(LifePatches, LifeData)
    \/ ListenerCollect(LifeAdditions, LifeDeletions, LifeData)
    \/ ListenerApply
    \/ ListenerDone

SpecRead == Init /\ [][NextRead]_vars

(***************************************************************************)
(* Synchronisation at rest.  The remote state has stopped changing: every  *)
(* GET /resource that is answered from now on holds Remote.  The cache     *)
(* holds what earlier states of the remote left in it, and the poll task   *)
(* is anywhere in its loop, possibly with an earlier snapshot in hand.     *)
(***************************************************************************)
Remote ==
    <<Res("light", Light("A", TRUE, 50, None)), Res("light", Light("B", TRUE, 50, None)),
      Res("bridge", TheBridge)>>

\* resources the remote held at some earlier time
Earlier ==
    {Res("light", Light("A", FALSE, 80, Some(1))), Res("light", Light("A", TRUE, 50, None)),
     Res("light", Light("C", FALSE, 80, None)), Res("scene", Scene("A", <<"x">>)),
     Res("bridge", TheBridge)}
EarlierSnapshots == {data \in SeqsOf(Earlier, 0, 2) : Distinct(data)}

InitSync ==
    /\ cache \in {insert_to_cache(BridgeCacheDefault, data) : data \in EarlierSnapshots}
    /\ poisoned = FALSE
    /\ lock = 0
    /\ main = Idle
    /\ now = 0
    /\ tasks \in {<<NewTask("poll", "tick_wait")>>, <<NewTask("poll", "fetching")>>}
                    \cup {<<[NewTask("poll", "locking") EXCEPT !.data = data]>> :
                             data \in EarlierSnapshots}
    /\ poll_handle = 1
    /\ listen_handle = 0
    /\ stopped = {}
    /\ puts = <<>>
    /\ last = NoLast

\* a request of the poll task is answered with the resources
PollFetchedOk(S) ==
    PollFetched(S) /\ \E t \in Tasks : tasks[t].st = "fetching" /\ tasks'[t].st = "locking"

NextSync ==
    \/ RefreshCall
    \/ RefreshDone({Remote})
    \/ Accessor
    \/ PollTick(FALSE)
    \/ PollFetched({Remote})
    \/ PollInsert

\* the runtime keeps scheduling the poll task: a tick that is due completes
\* and a snapshot in hand is inserted; requests may fail, but not for ever
SpecSync ==
    /\ InitSync /\ [][NextSync]_vars
    /\ WF_vars(PollTick(FALSE))
    /\ SF_vars(PollFetchedOk({Remote}))
    /\ WF_vars(PollInsert)

(***************************************************************************)
(* Foreground runs: every call of Bridge that reads or writes the cache    *)
(* (refresh, create_<kind>, delete_<kind>, the accessors) next to a poll   *)
(* task and a listen task.                                                 *)
(***************************************************************************)
\* poll and listen have returned, their eager fetches failed or applied
InitFore ==
    /\ cache \in {BridgeCacheDefault}
                    \cup {insert_to_cache(BridgeCacheDefault, data) : data \in LifeSnapshots}
    /\ poisoned = FALSE
    /\ lock = 0
    /\ main = Idle
    /\ now = 0
    /\ tasks = <<NewTask("poll", "tick_wait"), NewTask("listen", "connecting")>>
    /\ poll_handle = 1
    /\ listen_handle = 2
    /\ stopped = {}
    /\ puts = <<>>
    /\ last = NoLast

NextFore ==
    \/ RefreshCall
    \/ RefreshDone(LifeSnapshots)
    \/ Accessor
    \/ CreateCall
    \/ CreatePosted
    \/ CreateDone({})
    \/ DeleteCall
    \/ DeleteDone({<<>>})
    \/ PollTick(FALSE)
    \/ PollFetched(LifeSnapshots)
    \/ PollInsert
    \/ ListenerConnect
    \/ ListenerItem
    \/ ListenerMessage
    \/ ListenerLock
    \/ ListenerEvent(LifeBatch)
    \/ ListenerUpdate(LifePatches, LifeData)
    \/ ListenerCollect(LifeAdditions, LifeDeletions, LifeData)
    \/ ListenerApply
    \/ ListenerDone

SpecFore == InitFore /\ [][NextFore]_vars

(***************************************************************************)
(* Batches.  upsert_to_cache as a function of the cache and of one stream  *)
(* message (Vec<HueEvent>), and runs in which the messages the stream      *)
(* delivers are fixed beforehand and the listen task handles a message in  *)
(* three steps: it takes the message; it locks and runs upsert_to_cache;   *)
(* it calls the callback and unlocks.                                      *)
(***************************************************************************)
MaxEvents == 3     \* HueEvents the stream delivers in one run

Event(etype, data) == [etype |-> etype, data |-> data]

RECURSIVE UpdateAll(_, _)
\* for event_data in event.data { match event_data { ... } }
UpdateAll(st, data) ==
    IF data = <<>> \/ st.panicked THEN st
    ELSE UpdateAll(UpdateDatum(st, Head(data)), Tail(data))

\* the items a filter_map(..).collect() keeps, or Err where an unwrap in it panics
Collected(rs) ==
    LET kept == SelectSeq(rs, LAMBDA r : r.some)
    IN  IF \E i \in 1..Len(kept) : ~kept[i].val.ok THEN Err
        ELSE Ok([i \in 1..Len(kept) |-> kept[i].val.val])

\* one pass of `for event in data`: the states it may end in
UpsertEvent(st, ev) ==
    IF st.panicked THEN {st}
    ELSE CASE ev.etype = "update" -> {UpdateAll(st, ev.data)}
           [] ev.etype = "add" ->
                LET r == Collected([i \in 1..Len(ev.data) |-> AddDatum(ev.data[i])])
                IN  IF r.ok THEN {[st EXCEPT !.cache = insert_to_cache(@, r.val)]}
                    ELSE {Panic(st)}
           [] ev.etype = "delete" ->
                LET r == Collected([i \in 1..Len(ev.data) |-> DeleteDatum(ev.data[i])])
                IN  IF r.ok
                    THEN {[st EXCEPT !.cache = out.cache, !.panicked = out.panicked] :
                             out \in delete_from_cache(st.cache, r.val)}
                    ELSE {Panic(st)}
           [] OTHER -> {st}

\* faulty variant: the events of the message are applied last to first
RECURSIVE upsert_backwards(_, _)
upsert_backwards(st, data) ==
    IF data = <<>> THEN {st}
    ELSE UNION {upsert_backwards(s1, SubSeq(data, 1, Len(data) - 1)) :
                   s1 \in UpsertEvent(st, data[Len(data)])}

RECURSIVE upsert_to_cache(_, _)
upsert_to_cache(st, data) ==
    IF data = <<>> THEN {st}
    ELSE UNION {upsert_to_cache(s1, Tail(data)) : s1 \in UpsertEvent(st, Head(data))}

\* es.next() yields the next message (the head of inbox, which the task now
\* has in hand): the task runs from here on, parsing the message and then
\* asking for the lock, and an abort does not interrupt it
ListenerTake ==
    /\ \E t \in Tasks :
          /\ IsTask(t, "listen", "streaming")
          /\ tasks[t].inbox # <<>>
          /\ Step(t, [tasks[t] EXCEPT !.st = "locking"])
    /\ last' = NoLast
    /\ UNCHANGED <<cache, poisoned, lock, main, poll_handle, listen_handle, stopped, puts, now>>

\* the task, with a message in hand, locks the cache and applies the
\* message; the guard is held for the callback that follows
ListenerBatch ==
    /\ lock = 0
    /\ \E t \in Tasks :
          /\ IsTask(t, "listen", "locking")
          /\ tasks[t].inbox # <<>>
          /\ IF poisoned
             THEN /\ Step(t, [tasks[t] EXCEPT !.st = "panicked"])
                  /\ last' = NoLast
                  /\ UNCHANGED <<cache, poisoned, lock>>
             ELSE \E out \in upsert_to_cache([cache |-> cache, changes |-> {},
                                              panicked |-> FALSE], Head(tasks[t].inbox)) :
                     /\ cache' = out.cache
                     /\ poisoned' = out.panicked
                     /\ lock' = IF out.panicked THEN 0 ELSE t
                     /\ Step(t, IF out.panicked THEN [tasks[t] EXCEPT !.st = "panicked"]
                                ELSE [tasks[t] EXCEPT !.st = "applying", !.inbox = Tail(@),
                                                      !.changes = out.changes])
                     /\ last' = [op |-> "batch", by |-> t, pre |-> cache,
                                 batch |-> Head(tasks[t].inbox), changes |-> out.changes,
                                 panicked |-> out.panicked, called |-> None,
                                 start |-> IF last.op = "batch" THEN last.start ELSE cache,
                                 done |-> (IF last.op = "batch" THEN last.done ELSE <<>>)
                                             \o Head(tasks[t].inbox)]
    /\ UNCHANGED <<main, poll_handle, listen_handle, stopped, puts, now>>

\* cb(changes) runs, the guard is dropped and the task is back at
\* es.next().await.  A task aborted meanwhile is dropped there, unless the
\* stream has the next message buffered: then the await completes without
\* suspending and the task goes on with that message.
ListenerBatchDone ==
    /\ \E t \in Tasks :
          /\ IsTask(t, "listen", "applying")
          /\ lock = t
          /\ Step(t, IF tasks[t].cancel /\ tasks[t].inbox # <<>>
                     THEN [tasks[t] EXCEPT !.st = "locking", !.changes = {}]
                     ELSE AtAwait([tasks[t] EXCEPT !.changes = {}], "streaming"))
          /\ last' = IF last.op = "batch" /\ last.by = t
                     THEN [last EXCEPT !.called = Some(tasks[t].changes)]
                     ELSE [op |-> "callback", by |-> t, changes |-> tasks[t].changes,
                           holder |-> lock, events |-> tasks[t].n]
    /\ lock' = 0
    /\ UNCHANGED <<cache, poisoned, main, poll_handle, listen_handle, stopped, puts, now>>

\* events the stream may deliver
BatchEvents ==
    {Event("add", <<Datum("light", ToValue(LightData, Light("B", TRUE, 50, None)))>>),
     Event("add", <<Datum("light", ToValue(LightData, Light("A", FALSE, 80, Some(1))))>>),
     Event("delete", <<Datum("light", JObj(Id("B")))>>),
     Event("delete", <<Datum("light", JObj(Id("A")))>>),
     Event("update", <<Datum("light", JObj(Id("A") @@ "on" :> JObj("on" :> JBool(TRUE))))>>),
     Event("update", <<Datum("light", JObj(Id("A") @@ "on" :> JObj("on" :> JBool(FALSE))))>>),
     Event("update", <<Datum("light", JObj(Id("A") @@ "dimming" :> JObj("brightness" :> JNum(50)))),
                       Datum("light", JObj(Id("A") @@ "dimming" :> JObj("brightness" :> JNum(60))))>>)}

\* the k-th smallest element of a set of numbers
Kth(S, k) == CHOOSE x \in S : Cardinality({y \in S : y <= x}) = k
\* the events q cut into messages after the positions in cuts
Split(q, cuts) ==
    LET ends == cuts \cup {Len(q)}
    IN  [k \in 1..Cardinality(ends) |->
            SubSeq(q, IF k = 1 THEN 1 ELSE Kth(ends, k - 1) + 1, Kth(ends, k))]
Inboxes ==
    UNION {{Split(q, cuts) : cuts \in SUBSET (1..(Len(q) - 1))} :
              q \in SeqsOf(BatchEvents, 1, MaxEvents)}

InitBatch ==
    /\ cache \in {BridgeCacheDefault,
                  insert_to_cache(BridgeCacheDefault, <<Res("light", Light("A", FALSE, 80, Some(1)))>>)}
    /\ poisoned = FALSE
    /\ lock = 0
    /\ main = Idle
    /\ now = 0
    /\ tasks \in {<<[NewTask("listen", "streaming") EXCEPT !.inbox = q]>> : q \in Inboxes}
    /\ poll_handle = 0
    /\ listen_handle = 1
    /\ stopped = {}
    /\ puts = <<>>
    /\ last = NoLast

NextBatch ==
    \/ ListenerTake
    \/ ListenerBatch
    \/ ListenerBatchDone
    \/ GetLight
    \/ Unlisten

SpecBatch == InitBatch /\ [][NextBatch]_vars

(***************************************************************************)
(* A stale snapshot.  Light A has been deleted on the bridge: the Delete   *)
(* event is on its way to the listen task, every request answered from     *)
(* now on gives a snapshot without Light A, but the poll task may hold a   *)
(* snapshot it fetched before the deletion.                                *)
(***************************************************************************)
StaleLight == Light("A", FALSE, 80, Some(1))
Stale == <<Res("light", StaleLight), Res("bridge", TheBridge)>>
Fresh == {Res("light", Light("B", TRUE, 50, None)), Res("light", Light("B", FALSE, 50, None)),
          Res("bridge", TheBridge)}
FreshSnapshots == SeqsOf(Fresh, 0, 2)
Deletion == <<Event("delete", <<Datum("light", JObj(Id("A")))>>)>>

InitStale ==
    /\ cache \in {insert_to_cache(BridgeCacheDefault, Stale),
                  insert_to_cache(BridgeCacheDefault, <<Res("light", Light("A", TRUE, 50, None))>>)}
    /\ poisoned = FALSE
    /\ lock = 0
    /\ main = Idle
    /\ now = 0
    /\ tasks \in {<<p, [NewTask("listen", "streaming") EXCEPT !.inbox = <<Deletion>>]>> :
                      p \in {[NewTask("poll", "locking") EXCEPT !.data = Stale],
                             NewTask("poll", "tick_wait"), NewTask("poll", "fetching")}}
    /\ poll_handle = 1
    /\ listen_handle = 2
    /\ stopped = {}
    /\ puts = <<>>
    /\ last = NoLast

NextStale ==
    \/ PollTick(FALSE)
    \/ PollFetched(FreshSnapshots)
    \/ PollInsert
    \/ ListenerTake
    \/ ListenerBatch
    \/ ListenerBatchDone
    \/ RefreshCall
    \/ RefreshDone(FreshSnapshots)
    \/ GetLight

SpecStale == InitStale /\ [][NextStale]_vars

(***************************************************************************)
(* Callback runs: as the batch runs, with messages that hold Error events, *)
(* Updates of entries that are not cached or of kinds without an Update    *)
(* arm, an Update item without id, and items of the stream that are no     *)
(* batch.                                                                  *)
(***************************************************************************)
CallbackEvents ==
    {Event("update", <<Datum("light", JObj(Id("A") @@ "on" :> JObj("on" :> JBool(TRUE))))>>),
     Event("update", <<Datum("light", JObj(Id("B") @@ "on" :> JObj("on" :> JBool(FALSE))))>>),
     Event("update", <<Datum("zone", JObj(Id("A") @@ "metadata" :> JObj("name" :> JStr("w"))))>>),
     Event("update", <<Datum("light", JObj("on" :> JObj("on" :> JBool(TRUE))))>>),
     Event("add", <<Datum("light", ToValue(LightData, Light("B", TRUE, 50, None)))>>),
     Event("delete", <<Datum("light", JObj(Id("A")))>>),
     Event("error", <<Datum("light", JObj(Id("A") @@ "on" :> JObj("on" :> JBool(TRUE))))>>)}

CallbackInboxes ==
    UNION {{Split(q, cuts) : cuts \in SUBSET (1..(Len(q) - 1))} :
              q \in SeqsOf(CallbackEvents, 1, MaxEvents)}

InitCallback ==
    /\ cache = insert_to_cache(BridgeCacheDefault,
                               <<Res("light", Light("A", FALSE, 80, Some(1))), Res("zone", Zone("A"))>>)
    /\ poisoned = FALSE
    /\ lock = 0
    /\ main = Idle
    /\ now = 0
    /\ tasks \in {<<[NewTask("listen", "streaming") EXCEPT !.inbox = q]>> : q \in CallbackInboxes}
    /\ poll_handle = 0
    /\ listen_handle = 1
    /\ stopped = {}
    /\ puts = <<>>
    /\ last = NoLast

NextCallback ==
    \/ ListenerTake
    \/ ListenerBatch
    \/ ListenerBatchDone
    \/ ListenerItem
    \/ GetLight

SpecCallback == InitCallback /\ [][NextCallback]_vars

(***************************************************************************)
(* Poisoning runs: the stream may deliver a message with an item that      *)
(* makes upsert_to_cache panic, the bridge may acknowledge a delete with   *)
(* an identifier of a kind delete_from_cache has no arm for; the poll task *)
(* and the foreground go on calling.                                       *)
(***************************************************************************)
PoisonBatches ==
    {<<Event("update", <<Datum("light", JObj(Id("A") @@ "on" :> JObj("on" :> JBool(TRUE))))>>)>>,
     <<Event("update", <<Datum("light", JObj(Id("A") @@ "on" :> JObj("on" :> JBool(TRUE))))>>),
       Event("update", <<Datum("light", JObj("on" :> JObj("on" :> JBool(TRUE))))>>)>>,
     <<Event("delete", <<Datum("light", JObj(Id("A"))), Datum("bridge", JObj(Id("A")))>>)>>}
PoisonAcks == {<<>>, <<ResourceIdentifier("A", "geofence")>>}

InitPoison ==
    /\ cache = insert_to_cache(BridgeCacheDefault,
                               <<Res("light", Light("A", FALSE, 80, Some(1))), Res("scene", Scene("A", <<"x">>))>>)
    /\ poisoned = FALSE
    /\ lock = 0
    /\ main = Idle
    /\ now = 0
    /\ tasks \in {<<NewTask("poll", "tick_wait"),
                    [NewTask("listen", "streaming") EXCEPT !.inbox = q]>> :
                       q \in {<<>>} \cup {<<b>> : b \in PoisonBatches}}
    /\ poll_handle = 1
    /\ listen_handle = 2
    /\ stopped = {}
    /\ puts = <<>>
    /\ last = NoLast

NextPoison ==
    \/ ListenerTake
    \/ ListenerBatch
    \/ ListenerBatchDone
    \/ GetLight
    \/ RefreshCall
    \/ RefreshDone(TwiceSnapshots)
    \/ CreateCall
    \/ CreatePosted
    \/ CreateDone({NoData})
    \/ DeleteCall
    \/ DeleteDone(PoisonAcks)
    \/ PollTick(FALSE)
    \/ PollFetched(TwiceSnapshots)
    \/ PollInsert

SpecPoison == InitPoison /\ [][NextPoison]_vars

(***************************************************************************)
(* Deleting a scene: Bridge::delete_scene(id) on the bridge object, and    *)
(* Scene::delete() on a wrapper read with Bridge::scene(id).               *)
(***************************************************************************)
\* Bridge::scene(id): a wrapper holding a clone of the cached data
GetScene ==
    /\ main.pc = "idle"
    /\ lock = 0
    /\ \E id \in {"A", "B"} :
          IF poisoned THEN main' = [pc |-> "panicked"] /\ last' = NoLast
          ELSE LET got == IF id \in DOMAIN cache.scenes THEN Some(cache.scenes[id]) ELSE None
               IN  /\ main' = [pc |-> "idle", scene |-> got]
                   /\ last' = [op |-> "get_scene", id |-> id, got |-> got,
                               deleted |-> /\ last.op = "scene_delete"
                                           /\ last.id = id /\ last.result.ok,
                               pre |-> IF last.op = "scene_delete" THEN last.pre ELSE cache]
    /\ UNCHANGED <<cache, poisoned, lock, tasks, poll_handle, listen_handle, stopped, puts, now>>

\* Scene::delete() starts: the DELETE of the wrapper's id is in flight
SceneDeleteCall ==
    /\ main.pc = "idle"
    /\ "scene" \in DOMAIN main /\ main.scene.some
    /\ main' = [pc |-> "scene_delete_req", scene |-> main.scene]
    /\ last' = NoLast
    /\ UNCHANGED <<cache, poisoned, lock, tasks, poll_handle, listen_handle, stopped, puts, now>>

\* faulty variant: the identifiers acknowledged are removed from the cache
SceneDeleteDoneRemoving ==
    /\ main.pc = "scene_delete_req"
    /\ lock = 0
    /\ \E r \in {Ok(<<ResourceIdentifier(main.scene.val.id, "scene")>>), Failed("BadRequest")} :
          /\ main' = [pc |-> "idle", scene |-> main.scene]
          /\ cache' = IF r.ok THEN RetainKinds(cache, r.val, {"scene"}) ELSE cache
          /\ last' = [op |-> "scene_delete", id |-> main.scene.val.id, pre |-> cache, result |-> r]
    /\ UNCHANGED <<poisoned, lock, tasks, poll_handle, listen_handle, stopped, puts, now>>

\* the DELETE answers: the identifiers acknowledged, or the error, are returned
SceneDeleteDone ==
    /\ main.pc = "scene_delete_req"
    /\ \E r \in {Ok(<<ResourceIdentifier(main.scene.val.id, "scene")>>), Failed("BadRequest")} :
          /\ main' = [pc |-> "idle", scene |-> main.scene]
          /\ last' = [op |-> "scene_delete", id |-> main.scene.val.id, pre |-> cache, result |-> r]
    /\ UNCHANGED <<cache, poisoned, lock, tasks, poll_handle, listen_handle, stopped, puts, now>>

\* the messages the stream may deliver after a scene was deleted
SceneEvents ==
    {<<Event("delete", <<Datum("scene", JObj(Id("A")))>>)>>,
     <<Event("update", <<Datum("scene", JObj(Id("A") @@ "auto_dynamic" :> JBool(TRUE)))>>)>>}

\* Scenes A and B and Zone A are cached; the listen task is streaming
InitDelete ==
    /\ cache = insert_to_cache(BridgeCacheDefault,
                               <<Res("scene", Scene("A", <<"x">>)), Res("scene", Scene("B", <<"x">>)),
                                 Res("zone", Zone("A"))>>)
    /\ poisoned = FALSE
    /\ lock = 0
    /\ main = Idle
    /\ now = 0
    /\ tasks \in {<<[NewTask("listen", "streaming") EXCEPT !.inbox = q]>> :
                     q \in {<<>>} \cup {<<b>> : b \in SceneEvents}
                               \cup {<<a, b>> : a, b \in SceneEvents}}
    /\ poll_handle = 0
    /\ listen_handle = 1
    /\ stopped = {}
    /\ puts = <<>>
    /\ last = NoLast

NextDelete ==
    \/ DeleteCall
    \/ DeleteDone({<<>>})
    \/ GetScene
    \/ SceneDeleteCall
    \/ SceneDeleteDone
    \/ ListenerTake
    \/ ListenerBatch
    \/ ListenerBatchDone

SpecDelete == InitDelete /\ [][NextDelete]_vars

(***************************************************************************)
(* Properties of event reconciliation                                      *)
(***************************************************************************)
Absent == [t |-> "absent"]
Member(pv, k) == IF HasKey(pv, k) THEN pv.v[k] ELSE Absent

\* the typed value a patch value describes: a member the patch does not name
\* keeps the old value, a struct named by an object is patched member by
\* member, anything else is replaced by the patch's value
RECURSIVE Patched(_, _, _)
Patched(T, old, pv) ==
    IF pv = Absent THEN old
    ELSE IF T.t = "struct" /\ IsObj(pv)
    THEN [k \in DOMAIN T.ty |-> Patched(T.ty[k], old[k], Member(pv, k))]
    ELSE FromValue(T, pv).val

\* the last step applied an Update item of a kind with an Update arm to map f
UpdateOf(f) ==
    /\ last.op = "update"
    /\ last.arg.kind \in UpdateKinds
    /\ Field[last.arg.kind] = f
    /\ PayloadId(last.arg.payload).ok
UpdatedId == PayloadId(last.arg.payload).val

\* C1: when the cache holds an entry for the id and kind of an Update patch
\* (and the merged document is an entry of that kind), the entry stored
\* afterwards is the old entry with every member the patch names taking the
\* patch's value, nested objects member by member, arrays and scalars
\* wholesale, and every other member unchanged.
C1_MergeCorrect ==
    \A f \in {"lights", "scenes"} :
        (UpdateOf(f) /\ UpdatedId \in DOMAIN last.pre[f] /\ ~last.panicked)
            => /\ UpdatedId \in DOMAIN cache[f]
               /\ cache[f][UpdatedId] =
                     Patched(DataOf[last.arg.kind], last.pre[f][UpdatedId], last.arg.payload)
               /\ \A g \in DOMAIN cache : g # f => cache[g] = last.pre[g]
               /\ \A x \in DOMAIN last.pre[f] : x # UpdatedId => cache[f][x] = last.pre[f][x]

\* a nested member was patched and its sibling kept: Light A had brightness
\* 80 and min_dim_level 1, the patch {"dimming": {"brightness": 50}} came
C1_Witness ==
    /\ UpdateOf("lights") /\ ~last.panicked
    /\ "A" \in DOMAIN last.pre.lights
    /\ last.pre.lights["A"].dimming = [brightness |-> 80, min_dim_level |-> Some(1)]
    /\ cache.lights["A"].dimming = [brightness |-> 50, min_dim_level |-> Some(1)]

\* C2: an Update patch naming an id with no entry in the map of its kind
\* leaves the whole cache unchanged and the task goes on to the next item.
C2_DropOnMissingBase ==
    \A f \in {"lights", "scenes"} :
        (UpdateOf(f) /\ UpdatedId \notin DOMAIN last.pre[f])
            => /\ cache = last.pre
               /\ ~last.panicked
               /\ tasks[last.by].st = "event"

\* the patch for Light B came while only Light A was cached
C2_Witness ==
    /\ UpdateOf("lights") /\ UpdatedId = "B"
    /\ DOMAIN last.pre.lights = {"A"}
    /\ DOMAIN cache.lights = {"A"}

\* the identifiers a Delete names for the kind stored in map f
Named(f) == {last.arg[i].rid : i \in {j \in 1..Len(last.arg) :
                 last.arg[j].rtype \in StoredKinds /\ Field[last.arg[j].rtype] = f}}

\* C3: a Delete removes the ids it names from the maps of the kinds it names
\* them for and changes nothing else: an entry of another kind with the same
\* id stays.
C3_DeletionPrecise ==
    last.op = "delete" =>
        /\ cache.data = last.pre.data
        /\ \A f \in {Field[k] : k \in StoredKinds} :
              /\ DOMAIN last.pre[f] \ Named(f) \subseteq DOMAIN cache[f]
              /\ DOMAIN cache[f] \subseteq DOMAIN last.pre[f]
              /\ ~last.panicked => DOMAIN cache[f] = DOMAIN last.pre[f] \ Named(f)
              /\ \A x \in DOMAIN cache[f] : cache[f][x] = last.pre[f][x]

\* Light "A" was deleted while Scene "A" was cached
C3_Witness ==
    /\ last.op = "delete" /\ ~last.panicked
    /\ last.arg = <<ResourceIdentifier("A", "light")>>
    /\ "A" \in DOMAIN last.pre.lights /\ "A" \in DOMAIN last.pre.scenes
    /\ "A" \notin DOMAIN cache.lights /\ "A" \in DOMAIN cache.scenes

\* C8: no event makes the listen task panic, poisons the cache lock or makes
\* a foreground accessor panic.
C8_NeverCrashes ==
    /\ \A t \in Tasks : tasks[t].st # "panicked"
    /\ ~poisoned
    /\ main.pc # "panicked"

\* the listen task died on an Update item without an id, and an accessor
\* called afterwards panicked on the poisoned lock
C8_Witness ==
    /\ tasks[1].st = "panicked"
    /\ poisoned
    /\ main.pc = "panicked"

\* C13: for every kind the cache keeps a map for, an Update item naming an
\* id that has an entry leaves that entry merge-patched and its identifier
\* in the change set.
C13_UpdateEveryKind ==
    (/\ last.op = "update" /\ ~last.panicked
     /\ last.arg.kind \in StoredKinds
     /\ PayloadId(last.arg.payload).ok
     /\ UpdatedId \in DOMAIN last.pre[Field[last.arg.kind]])
        => LET f == Field[last.arg.kind]
           IN  /\ UpdatedId \in DOMAIN cache[f]
               /\ cache[f][UpdatedId] =
                     Patched(DataOf[last.arg.kind], last.pre[f][UpdatedId], last.arg.payload)
               /\ ResourceIdentifier(UpdatedId, last.arg.kind) \in tasks[last.by].changes

\* Zone A was cached and a patch renaming it came: the cache is as before
\* and the change set does not name the Zone
C13_Witness ==
    /\ last.op = "update" /\ ~last.panicked
    /\ last.arg.kind = "zone" /\ UpdatedId = "A"
    /\ "A" \in DOMAIN last.pre.zones
    /\ last.pre.zones["A"].metadata.name = "z"
    /\ last.arg.payload.v["metadata"] = JObj("name" :> JStr("w"))
    /\ cache = last.pre
    /\ ResourceIdentifier("A", "zone") \notin tasks[last.by].changes

\* C14: an Add event changes the cache exactly as the snapshot made of
\* the resources it carries would, for every kind snapshot ingestion stores.
C14_AddEqualsSnapshot ==
    last.op = "add" =>
        /\ Resources(last.raw).ok
        /\ cache = insert_to_cache(last.pre, Resources(last.raw).val)

\* an Add event carried the full BehaviorInstance A, which was not cached: a
\* snapshot holding it would insert it, after the event it is not cached
C14_Witness ==
    /\ last.op = "add"
    /\ \E i \in 1..Len(last.raw) :
          /\ last.raw[i].kind = "behavior_instance"
          /\ FromValue(BehaviorInstanceData, last.raw[i].payload).ok
    /\ Resources(last.raw).ok
    /\ "A" \in DOMAIN insert_to_cache(last.pre, Resources(last.raw).val).behavior_instances
    /\ "A" \notin DOMAIN cache.behavior_instances

\* C15: a Delete that names the Bridge empties the bridge slot, so that
\* data() is None afterwards, removes from the maps only what the Delete
\* names for them, and completes normally.
C15_DeleteSingleton ==
    (last.op = "delete" /\ \E i \in 1..Len(last.arg) : last.arg[i].rtype = "bridge")
        => /\ ~last.panicked
           /\ tasks[last.by].st # "panicked"
           /\ cache.data = None
           /\ \A f \in {Field[k] : k \in StoredKinds} :
                 cache[f] = Retain(last.pre[f], Named(f))

\* the Bridge was cached and a Delete naming it came: the task panicked in
\* delete_from_cache, the lock is poisoned and the Bridge is still cached
C15_Witness ==
    /\ last.op = "delete"
    /\ last.arg = <<ResourceIdentifier("A", "bridge")>>
    /\ last.pre.data = Some(TheBridge)
    /\ last.panicked /\ tasks[last.by].st = "panicked" /\ poisoned
    /\ cache.data = Some(TheBridge)

\* the items of a sequence whose kind has a map or is the Bridge
RECURSIVE Known(_)
Known(q) ==
    IF q = <<>> THEN <<>>
    ELSE (IF Head(q).kind \in StoredKinds \cup {"bridge"} THEN <<Head(q)>> ELSE <<>>)
            \o Known(Tail(q))
\* the ids the known items of a Delete name for map f
KnownIds(q, f) ==
    {PayloadId(q[i].payload).val :
        i \in {j \in 1..Len(q) : q[j].kind \in StoredKinds /\ Field[q[j].kind] = f}}

\* C16: a resource of a snapshot, or an item of an Add, Update or Delete
\* event, whose kind is unknown or has no map is skipped: nothing panics and
\* the cache afterwards is what the same snapshot or event without that
\* resource or item gives, the known ones beside it being applied.
C16_UnknownKindIgnored ==
    /\ ~poisoned /\ main.pc # "panicked" /\ \A t \in Tasks : tasks[t].st # "panicked"
    /\ last.op = "snapshot" => cache = insert_to_cache(last.pre, Known(last.snap))
    /\ last.op = "add" =>
          /\ Resources(Known(last.raw)).ok
          /\ cache = insert_to_cache(last.pre, Resources(Known(last.raw)).val)
    /\ last.op = "delete" =>
          /\ cache.data = last.pre.data
          /\ \A f \in {Field[k] : k \in StoredKinds} :
                cache[f] = Retain(last.pre[f], KnownIds(last.raw, f))
    /\ (last.op = "update" /\ last.arg.kind \notin StoredKinds) =>
          /\ cache = last.pre
          /\ tasks[last.by].st = "event"

\* an Add event carried an item of unknown kind and then Light B, which
\* was not cached: Light B is cached afterwards and nothing else changed
C16_Witness ==
    /\ last.op = "add"
    /\ Len(last.raw) = 2 /\ last.raw[1].kind = "unknown" /\ last.raw[2].kind = "light"
    /\ "B" \notin DOMAIN last.pre.lights
    /\ "B" \in DOMAIN cache.lights
    /\ tasks[last.by].st = "applying"

\* C17: an Error event changes neither a map nor the bridge slot, and the
\* loop over the batch goes on: the task is where it was, one event
\* further, still holding the lock, and takes the event that follows.
C17_ErrorEventInert ==
    /\ last.op = "error" =>
          /\ cache = last.pre
          /\ tasks[last.by] = [last.task EXCEPT !.n = @ + 1]
          /\ lock = last.by /\ ~poisoned
    /\ (last.op = "event" /\ last.after_error) =>
          /\ tasks[last.by].st = "event" /\ tasks[last.by].n >= 2
          /\ lock = last.by /\ ~poisoned

\* with the Bridge and Light A cached, the first event of a batch was an
\* Error and the task has taken the Update that follows it
C17_Witness ==
    /\ last.op = "event" /\ last.after_error /\ last.etype = "update"
    /\ tasks[last.by].n = 2
    /\ cache.data = Some(TheBridge) /\ "A" \in DOMAIN cache.lights

\* C22: the cache lock is held for one event at a time: when the listen task
\* stands between two events of a batch (an event applied, the next one or
\* the callback to come) the lock is free for a reader or a snapshot insert.
C22_LockPerEvent ==
    \A t \in Tasks :
        (IsTask(t, "listen", "applying") /\ tasks[t].n >= 1) => lock = 0

\* the task has applied the first event of a batch and taken the second
\* one, holding the lock all along
C22_Witness ==
    /\ last.op = "event"
    /\ IsTask(last.by, "listen", "event")
    /\ tasks[last.by].n = 2
    /\ lock = last.by

(***************************************************************************)
(* Properties of snapshots and of the task lifecycle                       *)
(***************************************************************************)
Fields == {Field[k] : k \in StoredKinds}
Count(c, f) == Cardinality(DOMAIN c[f])

\* C4: a full snapshot applied twice in a row leaves the cache as it was
\* after the first application: applying the snapshot just applied again
\* changes nothing, whoever applies it (refresh, a poll cycle, an eager fetch).
C4_SnapshotIdempotent ==
    last.op = "snapshot" =>
        /\ insert_to_cache(cache, last.snap) = cache
        /\ last.again => cache = last.pre

\* two steps in a row applied the same snapshot, which holds a Light
C4_Witness ==
    /\ last.op = "snapshot"
    /\ last.again
    /\ \E i \in 1..Len(last.snap) : last.snap[i].kind = "light"

\* C5: applying a snapshot removes no entry and lowers no count, and the
\* only step that lowers the count of a kind is a Delete.
C5_NonEviction ==
    [][/\ last'.op = "snapshot" =>
             /\ \A f \in Fields : \A x \in DOMAIN cache[f] : x \in DOMAIN cache'[f]
             /\ \A f \in Fields : Count(cache', f) >= Count(cache, f)
             /\ cache.data.some => cache'.data.some
       /\ (\E f \in Fields : Count(cache', f) < Count(cache, f)) => last'.op = "delete"]_vars

\* Lights A and B were cached, a snapshot holding only Light A was applied,
\* both are still cached
C5_Witness ==
    /\ last.op = "snapshot"
    /\ \E i \in 1..Len(last.snap) : last.snap[i].kind = "light"
    /\ \A i \in 1..Len(last.snap) : last.snap[i].kind = "light" => last.snap[i].d.id = "A"
    /\ DOMAIN last.pre.lights = {"A", "B"}
    /\ DOMAIN cache.lights = {"A", "B"}

\* resource res is what a read of the cache returns for its id
Sees(c, res) ==
    IF res.kind = "bridge" THEN c.data = Some(res.d)
    ELSE res.kind \in StoredKinds =>
            /\ res.d.id \in DOMAIN c[Field[res.kind]]
            /\ c[Field[res.kind]][res.d.id] = res.d

\* C9: when poll or listen returns after a successful eager fetch, the cache
\* already holds every resource of the snapshot, and the task just spawned
\* has not run yet.
C9_EagerFirstSync ==
    (last.op = "snapshot" /\ last.via \in {"poll", "listen"}) =>
        /\ main.pc = "idle"
        /\ \A i \in 1..Len(last.snap) : Sees(cache, last.snap[i])
        /\ tasks[Len(tasks)].st \in {"tick_wait", "connecting"}
        /\ Len(tasks) = IF last.via = "poll" THEN poll_handle ELSE listen_handle

\* poll returned with a snapshot applied whose Light was not cached before
C9_Witness ==
    /\ last.op = "snapshot" /\ last.via = "poll"
    /\ \E i \in 1..Len(last.snap) :
          /\ last.snap[i].kind = "light"
          /\ last.snap[i].d.id \notin DOMAIN last.pre.lights
    /\ tasks[Len(tasks)].type = "poll"

\* the last step applied something to the cache on behalf of a task
AppliedByTask == last.op \in {"snapshot", "update", "add", "delete"} /\ last.by # 0

\* C10 as stated: a task that unpoll / unlisten was applied to applies no
\* further snapshot or event to the cache.
C10_NothingAfterStop == AppliedByTask => ~last.stopped

\* C10, amended: a task stopped while suspended at an await (tick, fetch,
\* connection, next message) is dropped there, so a fetch in flight never
\* reaches the cache; a task stopped while running between two awaits is
\* not interrupted and is dropped when it next suspends at an await (an
\* await that completes at once, a tick that is due or a message that is
\* buffered, does not suspend it).
C10_StopAborts ==
    /\ \A t \in stopped :
          \/ tasks[t].st \in Terminal
          \/ tasks[t].st \in Running \cup {"tick_wait"} /\ tasks[t].cancel
    /\ (AppliedByTask /\ last.stopped) => last.cancel
    /\ (last.op = "fetch" /\ last.by \in stopped) =>
          tasks[last.by].st = "aborted" /\ tasks[last.by].cancel

\* a poll task was stopped while it held a fetched snapshot: it applied the
\* snapshot and was dropped at the tick
C10_Witness ==
    /\ AppliedByTask /\ last.stopped /\ last.cancel
    /\ last.op = "snapshot"
    /\ tasks[last.by].st = "aborted"

\* C11: the poll task issues no request before two full heartbeats have
\* passed since poll returned: its first timer fire fetches nothing.
C11_FirstTickSuppressed ==
    \A t \in Tasks : tasks[t].st \in {"fetching", "locking"} => now >= tasks[t].born + 2

\* the first tick of the interval completed at once and the task asked for
\* the resources in the instant poll returned
C11_Witness ==
    /\ last.op = "fetch"
    /\ last.at = last.born
    /\ tasks[last.by].st = "fetching"

\* C12: a start called again with no stop in between spawns one more task
\* and leaves the tasks spawned before alone: a task no stop was applied to
\* is never aborted, whatever the handles hold now, and the snapshot it
\* fetches reaches the shared cache.
C12_DoubleStart ==
    /\ \A t \in Tasks \ stopped : tasks[t].st # "aborted" /\ ~tasks[t].cancel
    /\ \A t \in Tasks : poll_handle # t /\ listen_handle # t /\ t \notin stopped
            => \E u \in Tasks : u > t /\ tasks[u].type = tasks[t].type
    /\ (last.op = "snapshot" /\ last.by # 0)
            => cache = insert_to_cache(last.pre, last.snap)

\* poll was called twice: the first task, whose handle was overwritten, has
\* just applied a snapshot that changed the cache while the second task
\* holds one it fetched
C12_Witness ==
    /\ Len(tasks) = 2 /\ poll_handle = 2 /\ stopped = {}
    /\ tasks[1].type = "poll" /\ tasks[2].type = "poll"
    /\ last.op = "snapshot" /\ last.by = 1 /\ cache # last.pre
    /\ tasks[2].st = "locking"

\* C18: refresh needs no background task.  When its fetch succeeds the
\* whole snapshot is in the cache when it returns; when the fetch fails
\* the caller gets the error and the cache is as it was.
C18_Refresh ==
    /\ (last.op = "snapshot" /\ last.via = "refresh") =>
          /\ main.pc = "idle"
          /\ cache = insert_to_cache(last.pre, last.snap)
          /\ \A i \in 1..Len(last.snap) : Sees(cache, last.snap[i])
    /\ last.op = "refresh_err" =>
          /\ main.pc = "idle"
          /\ last.result = Err
          /\ cache = last.pre

\* no task was ever spawned and refresh returned with a snapshot applied
\* whose Light was not cached before
C18_Witness ==
    /\ tasks = <<>>
    /\ last.op = "snapshot" /\ last.via = "refresh"
    /\ \E i \in 1..Len(last.snap) :
          /\ last.snap[i].kind = "light"
          /\ last.snap[i].d.id \notin DOMAIN last.pre.lights
          /\ last.snap[i].d.id \in DOMAIN cache.lights

\* the read that just returned was built from the cache as it is, with the
\* lock free and no task inside a batch
ReadAtRest ==
    /\ lock = 0
    /\ \A t \in Tasks : tasks[t].st \notin {"applying", "event"}
    /\ last.op = "list" => main.list = last.got /\ last.got = ListOf(cache, last.kind)
    /\ last.op = "get" => main.light = last.got /\ last.got = GetOf(cache, "light", last.id)

\* C19: what light(id) or lights() returned is a copy.  It is built under
\* the lock, from one state of the cache with no batch half applied, and no
\* later change of the cache (snapshot, Add, Update, Delete) changes what
\* the caller holds.
C19_ReadsAreCopies ==
    /\ [](last.op \in {"list", "get"} => ReadAtRest)
    /\ [][(cache' # cache /\ main.pc = "idle" /\ main'.pc = "idle") => main' = main]_vars

\* lights() returned Light A switched off, then an Update switched Light A
\* on in the cache: the list the caller holds still says off
C19_Witness ==
    /\ "list" \in DOMAIN main /\ main.kind = "light"
    /\ main.list = {Light("A", FALSE, 80, Some(1))}
    /\ last.op = "update"
    /\ "A" \in DOMAIN cache.lights /\ cache.lights["A"].on.on

\* C20: for every kind, what n_<kind>s() returns is the number of entries
\* of the map of that kind, the length of the list <kind>s() gives and the
\* number of ids <kind>(id) finds.
C20_AccessorsAgree ==
    last.op = "count" =>
        LET f == Field[last.kind]
        IN  /\ last.n = Cardinality(DOMAIN cache[f])
            /\ last.n = Cardinality(ListOf(cache, last.kind))
            /\ last.n = Cardinality({id \in DOMAIN cache[f] : GetOf(cache, last.kind, id).some})

\* BehaviorInstance A is cached and no BehaviorScript is:
\* n_behavior_instances() returned 0 while behavior_instances() has one
C20_Witness ==
    /\ last.op = "count" /\ last.kind = "behavior_instance"
    /\ last.n = 0 /\ main.n = 0
    /\ Cardinality(ListOf(cache, "behavior_instance")) = 1
    /\ GetOf(cache, "behavior_instance", "A").some

\* the cache holds every resource of the remote state with its remote value
Consistent == \A i \in 1..Len(Remote) : Sees(cache, Remote[i])

\* C21: once the remote state has stopped changing, with the poll task
\* running and its requests answered, the cache comes to hold every resource
\* of the remote state with its remote value, and holds them from then on.
C21_EventualConsistency == <>[]Consistent

\* the cache held Light A with an earlier value and no Light B; the poll task
\* has applied the snapshot of the remote state and the cache holds both
C21_Witness ==
    /\ last.op = "snapshot" /\ last.via = "tick" /\ last.snap = Remote
    /\ "A" \in DOMAIN last.pre.lights /\ ~last.pre.lights["A"].on.on
    /\ "B" \notin DOMAIN last.pre.lights
    /\ Consistent


\* C23: the cache lock is never held across a network await: its holder is
\* a task running between two awaits, a task that is suspended (or gone)
\* does not hold it, and so the lock is free whenever every task is
\* suspended, whatever the foreground call is waiting for.
C23_NoLockAcrossAwait ==
    /\ lock # 0 => lock \in Tasks /\ tasks[lock].st \in {"applying", "event"}
    /\ \A t \in Tasks : tasks[t].st \in Suspended \cup Terminal => lock # t
    /\ (\A t \in Tasks : tasks[t].st \in Suspended \cup Terminal) => lock = 0

\* create_<kind> waits for the answer to its GET and the listen task, having
\* applied a batch and run the callback, waits for the stream: the lock is free
C23_Witness ==
    /\ main.pc = "create_get"
    /\ last.op = "callback" /\ IsTask(last.by, "listen", "streaming")
    /\ last.holder = last.by
    /\ lock = 0

\* C27: create_<kind> returns the wrapper of the resource the bridge
\* created, with exactly that entry put into the map of its kind, when the
\* POST is acknowledged and the GET by id is answered with the resource;
\* when the POST fails, the GET fails or its answer is empty (NotFound), it
\* returns the error and the cache is as it was.
C27_CreateInserts ==
    last.op = "create" =>
        LET k == last.kind
            made == Created(k, last.rid)
        IN  IF last.posted /\ last.answer = Ok(JArr(<<ToValue(DataOf[k], made)>>))
            THEN /\ last.result = Ok(made)
                 /\ cache = [last.pre EXCEPT ![Field[k]] = Put(@, last.rid, made)]
            ELSE /\ ~last.result.ok
                 /\ cache = last.pre
                 /\ (last.posted /\ last.answer = Ok(JArr(<<>>))) => last.result.err = "NotFound"

\* the POST of create_behavior_instance was acknowledged and the bridge
\* answered the GET with the list holding the new BehaviorInstance: the call
\* returned an error and the instance is not cached
C27_Witness ==
    /\ last.op = "create" /\ last.kind = "behavior_instance" /\ last.posted
    /\ last.answer = Ok(JArr(<<ToValue(BehaviorInstanceData, Created(last.kind, last.rid))>>))
    /\ last.result = Failed("BadDeserialize")
    /\ last.rid \notin DOMAIN cache.behavior_instances
    /\ cache = last.pre

\* C28: in every map of the cache the key of an entry is the id of the data
\* stored under it, whichever of snapshot, Add, Update or create_<kind> put
\* it there; so no two entries of a kind have the same id.
C28_KeyIsId ==
    \A f \in Fields :
        /\ \A x \in DOMAIN cache[f] : cache[f][x].id = x
        /\ \A x, y \in DOMAIN cache[f] : cache[f][x].id = cache[f][y].id => x = y

\* Light A came with a snapshot and was just merge-patched by an Update,
\* Light B came with an Add or a snapshot, Scene B was put by create_scene
C28_Witness ==
    /\ last.op = "update" /\ ~last.panicked /\ cache # last.pre
    /\ DOMAIN cache.lights = {"A", "B"}
    /\ DOMAIN cache.scenes = {"B"}

(***************************************************************************)
(* Properties of command dispatch                                          *)
(***************************************************************************)
\* C6: send issues its PUT and leaves the cache alone; a get of the same id
\* made right after send returned gives the value cached before the send.
C6_WriteReadStale ==
    /\ last.op = "send" =>
          /\ cache = last.pre
          /\ Len(puts) = Len(last.puts) + 1
          /\ last.result.ok => last.result.val = <<ResourceIdentifier(last.id, "light")>>
    /\ (last.op = "get" /\ last.sent) =>
          /\ last.got = Some(last.pre.lights[last.id])
          /\ main.light = last.got

\* Light A was cached off, On(true) was sent, the next get still says off
C6_Witness ==
    /\ last.op = "get" /\ last.sent /\ last.id = "A"
    /\ HasKey(puts[Len(puts)].body, "on")
    /\ puts[Len(puts)].body.v["on"] = JObj("on" :> JBool(TRUE))
    /\ ~last.got.val.on.on

\* the commands of the list whose fragment has member m under key k
Setting(commands, k, m) ==
    {i \in 1..Len(commands) : HasKey(Serialize(commands[i]), k)
                                 /\ HasKey(Serialize(commands[i]).v[k], m)}
Largest(S) == CHOOSE i \in S : \A j \in S : j <= i

\* C7: send issues exactly one PUT, to the light's id; its body holds a key
\* for every command's fragment and, member by member, the value of the last
\* command in the list that sets the member (a null there leaves the member
\* out).
C7_CommandComposition ==
    last.op = "send" =>
        LET body == puts[Len(puts)].body
            frag(i) == Serialize(last.commands[i])
            keys == UNION {DOMAIN frag(i).v : i \in 1..Len(last.commands)}
            members(k) == UNION {DOMAIN frag(i).v[k].v :
                                    i \in {j \in 1..Len(last.commands) : HasKey(frag(j), k)}}
        IN  /\ puts = Append(last.puts, [id |-> last.id, body |-> body])
            /\ IsObj(body)
            /\ DOMAIN body.v = keys
            /\ \A k \in keys :
                  /\ IsObj(body.v[k])
                  /\ \A m \in members(k) :
                        LET v == frag(Largest(Setting(last.commands, k, m))).v[k].v[m]
                        IN  IF IsNull(v) THEN m \notin DOMAIN body.v[k].v
                            ELSE m \in DOMAIN body.v[k].v /\ body.v[k].v[m] = v
                  /\ DOMAIN body.v[k].v \subseteq members(k)

\* Dim(80) then Dim(50) were sent together with nothing else pending: one PUT
\* with brightness 50
C7_Witness ==
    /\ last.op = "send"
    /\ last.commands = <<Dim(80), Dim(50)>>
    /\ puts[Len(puts)].body = JObj("dimming" :> JObj("brightness" :> JNum(50)))

(***************************************************************************)
(* Properties of the order of application                                  *)
(***************************************************************************)
\* the data items of a list of events, in list order, each with the type of
\* its event
RECURSIVE Items(_)
Items(events) ==
    IF events = <<>> THEN <<>>
    ELSE [i \in 1..Len(Head(events).data) |->
             [etype |-> Head(events).etype, ed |-> Head(events).data[i]]]
            \o Items(Tail(events))

Touches(it, id) == it.ed.kind = "light" /\ PayloadId(it.ed.payload) = Ok(id)
\* members of a Light an Update may set: on.on and dimming.brightness
Leaves == {<<"on", "on">>, <<"dimming", "brightness">>}
Sets(payload, path) == HasKey(payload, path[1]) /\ HasKey(payload.v[path[1]], path[2])
Leaf(d, path) == d[path[1]][path[2]]

\* C24: the listen task applies the messages in arrival order and the events
\* and items of a message in list order, so that what the cache holds for
\* an id is decided by the last event that touches it: the id is cached iff
\* the last Add or Delete naming it is an Add (or none named it and it was
\* cached), and a member of a cached entry has the value of the last Add of
\* the id or Update of that member (or its old value when there is none).
C24_LastEventWins ==
    (last.op = "batch" /\ ~last.panicked) =>
        LET P == Items(last.done)
        IN  \A id \in {"A", "B"} :
               LET T == {i \in 1..Len(P) : Touches(P[i], id) /\ P[i].etype \in {"add", "delete"}}
                   present == IF T = {} THEN id \in DOMAIN last.start.lights
                              ELSE P[Largest(T)].etype = "add"
               IN  /\ (id \in DOMAIN cache.lights) = present
                   /\ present =>
                         \A path \in Leaves :
                            LET W == {i \in 1..Len(P) :
                                         /\ Touches(P[i], id)
                                         /\ \/ P[i].etype = "add"
                                            \/ P[i].etype = "update" /\ Sets(P[i].ed.payload, path)}
                                w == P[Largest(W)]
                            IN  Leaf(cache.lights[id], path) =
                                   IF W = {} THEN Leaf(last.start.lights[id], path)
                                   ELSE IF w.etype = "add"
                                   THEN Leaf(FromValue(LightData, w.ed.payload).val, path)
                                   ELSE w.ed.payload.v[path[1]].v[path[2]].v

\* one message held [Add Light B, Delete Light B, Update Light A with
\* brightness 50 then 60]: Light B is not cached and Light A has brightness 60
C24_Witness ==
    /\ last.op = "batch" /\ ~last.panicked
    /\ Len(last.batch) = 3
    /\ last.batch[1].etype = "add" /\ Touches(Items(last.batch)[1], "B")
    /\ last.batch[2].etype = "delete" /\ Touches(Items(last.batch)[2], "B")
    /\ last.batch[3].etype = "update" /\ Len(last.batch[3].data) = 2
    /\ "B" \notin DOMAIN cache.lights
    /\ "A" \in DOMAIN cache.lights /\ cache.lights["A"].dimming.brightness = 60

(***************************************************************************)
(* Properties of the poll cycle                                            *)
(***************************************************************************)
\* C25: a poll task starts a fetch only from the tick, that is after its
\* previous fetch and insert have finished and the timer has fired, and a
\* fetch never starts less than one heartbeat after the previous fetch of
\* the task started: the ticks missed during an overrunning cycle are not
\* made up for, the next tick is due one heartbeat after the late one.
C25_NoBurst ==
    /\ last.op = "fetch" =>
          /\ last.prev # -1 => last.at >= last.prev + 1
          /\ tasks[last.by].due = last.at + 1
    /\ \A t \in Tasks :
          (tasks[t].type = "poll" /\ tasks[t].st \in {"fetching", "locking"}) =>
              /\ tasks[t].asked >= 0
              /\ tasks[t].due = tasks[t].asked + 1

\* a cycle overran (the previous fetch started two heartbeats ago) and the
\* task starts its next fetch now, the following tick being due in one
\* heartbeat
C25_Witness ==
    /\ last.op = "fetch"
    /\ last.prev >= 0
    /\ last.at = last.prev + 2
    /\ tasks[last.by].st = "fetching"
    /\ tasks[last.by].due = now + 1

\* C26: a failed fetch is skipped.  After a failed periodic fetch the cache
\* is as it was, the foreground is untouched, and the task is back at the
\* tick with its timer as it was, so that it fetches again at the next
\* timer fire; after a failed eager fetch poll() has returned with the
\* cache as it was, the task spawned and its handle stored.
C26_FailedFetchSkipped ==
    /\ last.op = "fetch_err" =>
          /\ cache = last.pre
          /\ main = last.main
          /\ ~poisoned
          /\ tasks[last.by] = [last.task EXCEPT !.st = "tick_wait"]
    /\ (last.op = "started" /\ last.via = "poll") =>
          /\ cache = last.pre
          /\ main = Idle
          /\ poll_handle = Len(tasks)
          /\ IsTask(poll_handle, "poll", "tick_wait")
    /\ (last.op = "fetch" /\ last.after_err) => tasks[last.by].st = "fetching"

\* a periodic fetch failed and the task has asked again at the next timer
\* fire
C26_Witness ==
    /\ last.op = "fetch"
    /\ last.after_err
    /\ last.prev >= 0
    /\ tasks[last.by].st = "fetching"
    /\ tasks[last.by].asked = now

(***************************************************************************)
(* Properties of a stop after a double start                               *)
(***************************************************************************)
\* a task no handle of the Bridge refers to and no stop was applied to
Orphan(t) == poll_handle # t /\ listen_handle # t /\ t \notin stopped

\* C30: a start called twice with no stop in between leaves the first task
\* without a handle and running; the stop that follows is applied to the
\* task of the stored handle alone, and whatever is called later, a task
\* without a handle stays without one, is never stopped, never aborted
\* and never marked for cancellation: it goes on fetching and inserting.
C30_StopsOnlyNewest ==
    [][/\ \A t \in Tasks :
             Orphan(t) => /\ Orphan(t)'
                          /\ tasks'[t].st # "aborted"
                          /\ ~tasks'[t].cancel
       /\ stopped' \subseteq stopped \cup {poll_handle, listen_handle}
       /\ \A t \in Tasks : (tasks'[t].st = "aborted" \/ tasks'[t].cancel) => t \in stopped'
      ]_vars

\* poll was called twice and unpoll once: the second task is aborted, no
\* handle is stored, and the first task has just inserted a snapshot that
\* changed the cache
C30_Witness ==
    /\ Len(tasks) = 2 /\ tasks[1].type = "poll" /\ tasks[2].type = "poll"
    /\ poll_handle = 0 /\ stopped = {2}
    /\ tasks[2].st = "aborted"
    /\ main.pc = "idle"
    /\ last.op = "snapshot" /\ last.by = 1 /\ cache # last.pre

(***************************************************************************)
(* Properties of a stale snapshot                                          *)
(***************************************************************************)
\* the poll task has just inserted a snapshot holding Light A into a cache
\* that did not hold Light A
Resurrected ==
    /\ last.op = "snapshot" /\ last.via = "tick"
    /\ "A" \notin DOMAIN last.pre.lights
    /\ \E i \in 1..Len(last.snap) : last.snap[i] = Res("light", StaleLight)

\* C29: a snapshot fetched before Light A was deleted and inserted after the
\* listen task applied the Delete event puts Light A back, with the value
\* the snapshot has for it, and from then on Light A stays cached: no later
\* snapshot removes it.
C29_StaleResurrects ==
    /\ [](Resurrected => "A" \in DOMAIN cache.lights /\ cache.lights["A"] = StaleLight)
    /\ [](Resurrected => []("A" \in DOMAIN cache.lights))
    /\ []((last.op = "batch" /\ last.batch = Deletion /\ ~last.panicked)
              => "A" \notin DOMAIN cache.lights)

\* the listen task has applied the Delete event, the poll task then inserted
\* the snapshot it held: Light A is cached again
C29_Witness ==
    /\ Resurrected
    /\ tasks[2].inbox = <<>>
    /\ last.by = 1
    /\ "A" \in DOMAIN cache.lights

(***************************************************************************)
(* Properties of stops, callbacks and the lock                             *)
(***************************************************************************)
\* C31: a stop never leaves a snapshot or a batch half applied.  A task is
\* dropped only where it is suspended, with the cache as it is, or in the
\* step that ends its critical section: the poll task's insert of the whole
\* snapshot, the listen task's callback after the last event of its batch,
\* where the guard is dropped.  An aborted task never holds the lock.
C31_StopAtomic ==
    /\ [](\A t \in Tasks : tasks[t].st = "aborted" => lock # t)
    /\ [][\A t \in Tasks :
             (tasks[t].st # "aborted" /\ tasks'[t].st = "aborted") =>
                 \/ tasks[t].st \in Suspended /\ cache' = cache /\ lock' = lock
                 \/ /\ IsTask(t, "poll", "locking")
                    /\ tasks[t].cancel
                    /\ cache' = insert_to_cache(cache, tasks[t].data)
                 \/ /\ IsTask(t, "listen", "applying")
                    /\ tasks[t].cancel
                    /\ lock = t /\ lock' = 0
                    /\ last'.op = "callback" /\ last'.by = t
                    /\ cache' = cache
      ]_vars

\* unlisten was called while the listen task was inside its batch: the task
\* applied the Update, ran the callback with the change and was dropped at
\* the next await of the stream
C31_Witness ==
    /\ last.op = "callback" /\ last.changes # {}
    /\ last.by \in stopped
    /\ tasks[last.by].st = "aborted"
    /\ lock = 0

\* was Light id cached when item i of the items P came, the cache having
\* been pre before the first
CachedBefore(pre, P, i, id) ==
    LET T == {j \in 1..(i - 1) : Touches(P[j], id) /\ P[j].etype \in {"add", "delete"}}
    IN  IF T = {} THEN id \in DOMAIN pre.lights ELSE P[Largest(T)].etype = "add"

\* the identifiers of the Lights an Update item of the batch found cached
ExpectedChanges(pre, batch) ==
    LET P == Items(batch)
    IN  {ResourceIdentifier(id, "light") :
            id \in {x \in {"A", "B"} :
                      \E i \in 1..Len(P) : /\ P[i].etype = "update"
                                           /\ Touches(P[i], x)
                                           /\ CachedBefore(pre, P, i, x)}}

\* C32: for every message that parses to a batch the callback is run once,
\* after the last event, with exactly the identifiers of the entries an
\* Update of the batch merge-patched (none for Add, Delete, Error and
\* dropped Updates); a message that does not parse runs no callback and
\* changes nothing.
C32_CallbackPerBatch ==
    /\ last.op = "batch" =>
          /\ ~last.panicked
          /\ last.changes = ExpectedChanges(last.pre, last.batch)
          /\ IF last.called.some
             THEN /\ last.called.val = ExpectedChanges(last.pre, last.batch)
                  /\ tasks[last.by].st = "streaming" /\ lock = 0
             ELSE /\ tasks[last.by].st = "applying" /\ lock = last.by
                  /\ tasks[last.by].changes = last.changes
    /\ last.op = "unparsed" => cache = last.pre /\ lock = 0

\* the message held an Update of Light A, which was cached, and then an
\* Update item without id: Light A is switched on in the cache, the task is
\* gone and the callback was never run for the batch
C32_Witness ==
    /\ last.op = "batch" /\ last.panicked
    /\ Len(last.batch) = 2
    /\ ExpectedChanges(last.pre, last.batch) = {ResourceIdentifier("A", "light")}
    /\ ~last.pre.lights["A"].on.on /\ cache.lights["A"].on.on
    /\ tasks[last.by].st = "panicked" /\ poisoned

\* C33: the listen task holds the lock from the start of a batch until its
\* callback has returned: whoever else takes the lock (an accessor,
\* refresh, create or delete of the foreground, the insert of a poll task)
\* does so with no batch begun and unfinished, and the callback is run by
\* the holder of the lock.
C33_CallbackUnderLock ==
    /\ \A t \in Tasks : tasks[t].st \in {"applying", "event"} => lock = t
    /\ (\/ last.op \in {"list", "get", "count", "snapshot"}
        \/ last.op \in {"create", "delete_call"} /\ last.result.ok) =>
          /\ lock = 0
          /\ \A t \in Tasks : tasks[t].st \notin {"applying", "event"}
    /\ last.op = "callback" => last.holder = last.by /\ last.holder # 0

\* the listen task has merge-patched an entry and has its callback still to
\* run, holding the lock, while a poll task waits with a snapshot in hand
C33_Witness ==
    \E t, u \in Tasks :
        /\ IsTask(t, "listen", "applying") /\ tasks[t].n >= 1 /\ tasks[t].changes # {}
        /\ lock = t
        /\ IsTask(u, "poll", "locking") /\ tasks[u].data # <<>>

(***************************************************************************)
(* Properties of a poisoned lock                                           *)
(***************************************************************************)
\* the step recorded in last is the one that panicked with the guard held
Poisoning ==
    \/ last.op = "batch" /\ last.panicked
    \/ last.op = "delete_call" /\ last.result.ok /\ main.pc = "panicked"

\* C34: a panic under the lock, in upsert_to_cache run by the listen task
\* or in delete_from_cache run by a foreground delete, poisons the lock for
\* good.  What was applied before the panic stays, nothing changes the
\* cache afterwards, and whoever takes the lock later fails: no accessor,
\* refresh, create, delete, batch or snapshot insert returns a value.
C34_PoisonIsFinal ==
    /\ [](Poisoning => poisoned /\ lock = 0)
    /\ [][poisoned => poisoned' /\ cache' = cache]_vars
    /\ []((poisoned /\ ~Poisoning) =>
             /\ last.op \notin {"get", "list", "count", "snapshot", "batch"}
             /\ last.op \in {"create", "delete_call"} => ~last.result.ok)
    /\ [][(poisoned /\ main.pc = "idle" /\ main'.pc = "idle") => main' = main]_vars

\* the bridge acknowledged a foreground delete with a Geofence identifier:
\* delete_from_cache panicked in the caller, the listen task is untouched,
\* and the poll task has panicked on its next insert
C34_Witness ==
    /\ poisoned
    /\ main.pc = "panicked"
    /\ IsTask(1, "poll", "panicked")
    /\ IsTask(2, "listen", "streaming") /\ tasks[2].inbox = <<>>
    /\ "A" \in DOMAIN cache.lights /\ ~cache.lights["A"].on.on

(***************************************************************************)
(* Properties of null in composed commands                                 *)
(***************************************************************************)
RECURSIVE HasNull(_)
\* a null anywhere in the value
HasNull(v) ==
    \/ IsNull(v)
    \/ IsObj(v) /\ \E k \in DOMAIN v.v : HasNull(v.v[k])
    \/ v.t = "arr" /\ \E i \in 1..Len(v.v) : HasNull(v.v[i])

RECURSIVE NullMember(_)
\* a null that is the value of a member of the object or of an object nested
\* in it through objects
NullMember(v) ==
    IsObj(v) /\ \E k \in DOMAIN v.v : IsNull(v.v[k]) \/ NullMember(v.v[k])

\* the member m under key k is null in the fragment of the last command of
\* the list that has it
LastIsNull(commands, k, m) ==
    /\ Setting(commands, k, m) # {}
    /\ IsNull(Serialize(commands[Largest(Setting(commands, k, m))]).v[k].v[m])

\* what both readings of C35 state of members and of the empty list
NullRemoves ==
    last.op = "merge" =>
        /\ last.commands = <<>> => last.result = EmptyObj
        /\ \A k \in {"dynamics", "metadata"} : \A m \in {"duration", "speed", "name", "archetype"} :
              LastIsNull(last.commands, k, m) => m \notin DOMAIN last.result.v[k].v

\* C35: the result of merge_commands holds no null value at all; a member a
\* command serialises as null is absent from it, also when an earlier
\* command had set it; the result for the empty list is the empty object.
C35_NoNull ==
    /\ NullRemoves
    /\ last.op = "merge" => ~HasNull(last.result)

\* C35, amended: no member of the result, at any depth of nested objects,
\* is null; a member a command serialises as null is absent, also when an
\* earlier command had set it; the result for the empty list is the empty
\* object.  An array is taken over whole from the last command that has
\* it, with the nulls its elements hold.
C35_NoNullMember ==
    /\ NullRemoves
    /\ last.op = "merge" =>
          /\ ~NullMember(last.result)
          /\ LET A == {i \in 1..Len(last.commands) : last.commands[i].c = "Actions"}
             IN  IF A = {} THEN ~HasKey(last.result, "actions")
                 ELSE last.result.v["actions"] = Serialize(last.commands[Largest(A)]).v["actions"]

\* Dynamics with a duration and no speed, then Actions with one action whose
\* mirek is None: the result has the duration, no speed member, and the
\* actions with the null in them
C35_Witness ==
    /\ last.op = "merge"
    /\ last.commands = <<Dynamics(Some(1), None), Actions(<<None>>)>>
    /\ last.result.v["dynamics"] = JObj("duration" :> JNum(1))
    /\ HasNull(last.result.v["actions"])
    /\ ~NullMember(last.result)

(***************************************************************************)
(* Properties of toggle                                                    *)
(***************************************************************************)
\* C36: toggle sends On(not is_on) of the data its wrapper holds, in one
\* PUT, and changes neither the wrapper nor the cache; so a toggle that
\* follows a toggle of the same wrapper, or of a wrapper of the same light
\* read from the same cached entry, sends the same power value again.
C36_ToggleFromSnapshot ==
    last.op = "toggle" =>
        /\ cache = last.pre
        /\ main.light = Some(last.wrapper)
        /\ puts = Append(last.puts,
                         [id |-> last.id,
                          body |-> JObj("on" :> JObj("on" :> JBool(~last.wrapper.on.on)))])
        /\ last.on = ~last.wrapper.on.on
        /\ last.prev.some => last.on = last.prev.val

\* Light A is cached off; toggle was called twice, the second time after
\* the first had sent On(true): both PUTs say on, and the cache says off
C36_Witness ==
    /\ last.op = "toggle" /\ last.id = "A"
    /\ last.prev = Some(TRUE) /\ last.on
    /\ Len(puts) = 2
    /\ puts[1] = puts[2]
    /\ ~cache.lights["A"].on.on

(***************************************************************************)
(* Properties of the two ways to delete                                    *)
(***************************************************************************)
\* the ids of the kind stored in map f that the last call had acknowledged
Acked(f) ==
    {last.result.val[i].rid :
        i \in {j \in 1..Len(last.result.val) : Field[last.result.val[j].rtype] = f}}
\* the last message applied held a Delete of scene id
DeletesScene(id) ==
    \E i \in 1..Len(last.batch) :
        /\ last.batch[i].etype = "delete"
        /\ \E j \in 1..Len(last.batch[i].data) :
              last.batch[i].data[j] = Datum("scene", JObj(Id(id)))

\* C37: Bridge::delete_<kind>(id) returns with the identifiers the bridge
\* acknowledged removed from the cache, and with the cache unchanged when
\* the request failed; Scene::delete() on a wrapper leaves the cache as it
\* was, so scene(id) still returns the scene after an acknowledged delete;
\* a Delete event for the scene, once applied, removes it.
C37_TwoDeletePaths ==
    /\ last.op = "delete_call" =>
          IF last.result.ok
          THEN /\ cache.data = last.pre.data
               /\ \A f \in {Field[k] : k \in DOMAIN Field} :
                     /\ DOMAIN cache[f] = DOMAIN last.pre[f] \ Acked(f)
                     /\ \A id \in DOMAIN cache[f] : cache[f][id] = last.pre[f][id]
               /\ last.id \notin DOMAIN cache[Field[last.kind]]
          ELSE cache = last.pre
    /\ last.op = "scene_delete" =>
          /\ cache = last.pre
          /\ main.pc = "idle" /\ main.scene.some /\ main.scene.val.id = last.id
    /\ (last.op = "get_scene" /\ last.deleted) =>
          /\ cache = last.pre
          /\ last.got = IF last.id \in DOMAIN cache.scenes
                        THEN Some(cache.scenes[last.id]) ELSE None
    /\ (last.op = "batch" /\ ~last.panicked) =>
          \A id \in {"A", "B"} : DeletesScene(id) => id \notin DOMAIN cache.scenes

\* Scene A was deleted through its wrapper, the bridge acknowledged it, and
\* scene("A") returned the scene again; no Delete event has been applied
C37_Witness ==
    /\ last.op = "get_scene" /\ last.id = "A" /\ last.deleted
    /\ last.got = Some(Scene("A", <<"x">>))
    /\ tasks[1].inbox # <<>>
    /\ DOMAIN cache.scenes = {"A", "B"}
====
